---- MODULE Spec2Model ----
(***************************************************************************)
(* The doubly connected edge list of src/src/delaunay/dcel.rs as a state   *)
(* machine.  The three vectors of the DCEL struct are the state; a handle  *)
(* h of the source (a 0-based index into a Vec) is stored at position h+1  *)
(* of the corresponding sequence.  Option<handle> is modelled by the       *)
(* handle itself for Some(h) and by None for None.  The vertex data type V *)
(* is the unit type used by the source's tests, written Unit.              *)
(*                                                                         *)
(* A behaviour starts in DCEL::new() or in one of the meshes that the      *)
(* source's own tests build from it, and then makes up to MaxSteps calls   *)
(* of the mutating operations, each with its precondition met.             *)
(***************************************************************************)
EXTENDS Integers, Sequences, FiniteSets, TLC

VARIABLES vertices, edges, faces, last, simple, steps, iter, rect

vars == <<vertices, edges, faces, last, simple, steps, iter, rect>>

\* Bound of the model: the number of calls made on the starting mesh.
MaxSteps == 2

\* Bounds of the bounding rectangles: the coordinates of a point are
\* 0 .. MaxCoord and from_points is given up to MaxPoints points.
MaxCoord == 2
MaxPoints == 3

None == -1
Unit == 0

\* struct DCEL: the value the operations below transform.  The field fault
\* records how the running call ended: "none" while it runs normally,
\* "panic" once it has indexed a vector out of bounds (Rust aborts the call
\* there), "hang" once it has entered a loop that does not end.
DCEL(vs, es, fs) == [vertices |-> vs, edges |-> es, faces |-> fs, fault |-> "none"]

D == DCEL(vertices, edges, faces)

Fault(d, how) == IF d.fault = "none" THEN [d EXCEPT !.fault = how] ELSE d

\* Handles in range for a DCEL value.
VertexHandles(d) == 0 .. (Len(d.vertices) - 1)
EdgeHandles(d) == 0 .. (Len(d.edges) - 1)
FaceHandles(d) == 0 .. (Len(d.faces) - 1)

HalfEdgeEntry(n, p, t, o, f) ==
    [next |-> n, prev |-> p, twin |-> t, origin |-> o, face |-> f]

\* self.edges[h]: the entry, or for a handle out of bounds an entry of
\* handles that are themselves out of bounds (the call has panicked; the
\* operations below record it with Fault).
EdgeAt(d, h) ==
    IF h \in EdgeHandles(d) THEN d.edges[h + 1]
    ELSE HalfEdgeEntry(-1, -1, -1, -1, -1)

\* Field access through a handle: EdgeHandle::o_next, o_prev, sym, from,
\* face, VertexHandle::out_edge and FaceHandle::adjacent_edge.
o_next(d, e) == EdgeAt(d, e).next
o_prev(d, e) == EdgeAt(d, e).prev
sym(d, e) == EdgeAt(d, e).twin
from(d, e) == EdgeAt(d, e).origin
face(d, e) == EdgeAt(d, e).face
out_edge(d, v) == IF v \in VertexHandles(d) THEN d.vertices[v + 1].out_edge ELSE -1
adjacent_edge(d, f) == IF f \in FaceHandles(d) THEN d.faces[f + 1].adjacent_edge ELSE -1

\* Field assignment through a handle; out of bounds it panics.
SetNext(d, e, x) ==
    IF e \in EdgeHandles(d) THEN [d EXCEPT !.edges[e + 1].next = x] ELSE Fault(d, "panic")
SetPrev(d, e, x) ==
    IF e \in EdgeHandles(d) THEN [d EXCEPT !.edges[e + 1].prev = x] ELSE Fault(d, "panic")
SetTwin(d, e, x) ==
    IF e \in EdgeHandles(d) THEN [d EXCEPT !.edges[e + 1].twin = x] ELSE Fault(d, "panic")
SetOrigin(d, e, x) ==
    IF e \in EdgeHandles(d) THEN [d EXCEPT !.edges[e + 1].origin = x] ELSE Fault(d, "panic")
SetFace(d, e, x) ==
    IF e \in EdgeHandles(d) THEN [d EXCEPT !.edges[e + 1].face = x] ELSE Fault(d, "panic")
SetOutEdge(d, v, x) ==
    IF v \in VertexHandles(d) THEN [d EXCEPT !.vertices[v + 1].out_edge = x]
    ELSE Fault(d, "panic")
SetAdjacentEdge(d, f, x) ==
    IF f \in FaceHandles(d) THEN [d EXCEPT !.faces[f + 1].adjacent_edge = x]
    ELSE Fault(d, "panic")

\* A read of self.edges[e], self.vertices[v] or self.faces[f] that the
\* operation makes without writing through the same handle.
ReadsEdge(d, e) == IF e \in EdgeHandles(d) THEN d ELSE Fault(d, "panic")
ReadsVertex(d, v) == IF v \in VertexHandles(d) THEN d ELSE Fault(d, "panic")
ReadsFace(d, f) == IF f \in FaceHandles(d) THEN d ELSE Fault(d, "panic")

\* Vec::swap_remove: the last element takes the place of the removed one.
swap_remove(s, h) ==
    IF h + 1 = Len(s) THEN SubSeq(s, 1, Len(s) - 1)
    ELSE SubSeq(s, 1, h) \o <<s[Len(s)]>> \o SubSeq(s, h + 2, Len(s) - 1)

VertexEntry(data) == [data |-> data, out_edge |-> None]

\* DCEL::new_with_edge: no vertices, no edges, one face without boundary.
new_with_edge == DCEL(<<>>, <<>>, <<[adjacent_edge |-> None]>>)

\* DCEL::insert_vertex
insert_vertex(d, data) ==
    [d EXCEPT !.vertices = Append(d.vertices, VertexEntry(data))]

\* self.edges.push(edge); self.edges.push(twin)
push_pair(d, edge, twin) == [d EXCEPT !.edges = Append(Append(d.edges, edge), twin)]

\* connect_two_isolated_vertices that does not give the face its
\* adjacent_edge.
connect_two_isolated_vertices_face_skipped(d, v0, v1, f) ==
    SetOutEdge(
        SetOutEdge(
            push_pair(d,
                HalfEdgeEntry(Len(d.edges) + 1, Len(d.edges) + 1, Len(d.edges) + 1, v0, f),
                HalfEdgeEntry(Len(d.edges), Len(d.edges), Len(d.edges), v1, f)),
            v0, Len(d.edges)),
        v1, Len(d.edges) + 1)

\* assert!(cond, ..) at the head of an operation: the call panics there, the
\* DCEL as it was.  Indexing past the end of a vector panics as well.
Asserted(d, in_range, cond) == IF in_range /\ cond THEN d ELSE Fault(d, "panic")

\* DCEL::connect_two_isolated_vertices after its three asserts.
connect_two_isolated_vertices_asserted(d, v0, v1, f) ==
    LET edge_index == Len(d.edges)
        twin_index == edge_index + 1
        edge == HalfEdgeEntry(twin_index, twin_index, twin_index, v0, f)
        twin == HalfEdgeEntry(edge_index, edge_index, edge_index, v1, f)
        d1 == push_pair(d, edge, twin)
        d2 == SetOutEdge(d1, v0, edge_index)
        d3 == SetOutEdge(d2, v1, twin_index)
    IN  SetAdjacentEdge(d3, f, edge_index)

\* The three asserts of connect_two_isolated_vertices.
both_isolated_and_face_empty(d, v0, v1, f) ==
    Asserted(d, v0 \in VertexHandles(d) /\ v1 \in VertexHandles(d) /\ f \in FaceHandles(d),
             out_edge(d, v0) = None /\ out_edge(d, v1) = None
                /\ adjacent_edge(d, f) = None)

\* DCEL::connect_two_isolated_vertices
connect_two_isolated_vertices(d, v0, v1, f) ==
    IF both_isolated_and_face_empty(d, v0, v1, f).fault = "none"
    THEN connect_two_isolated_vertices_asserted(d, v0, v1, f)
    ELSE both_isolated_and_face_empty(d, v0, v1, f)

\* connect_edge_to_isolated_vertex whose new twin continues with the old
\* prev_e instead of the old next of prev_e.
connect_edge_to_isolated_vertex_next_lost(d, prev_handle, vertex) ==
    SetOutEdge(
        SetPrev(
            SetNext(
                push_pair(d,
                    HalfEdgeEntry(Len(d.edges) + 1, prev_handle, Len(d.edges) + 1,
                                  from(d, sym(d, prev_handle)), face(d, prev_handle)),
                    HalfEdgeEntry(prev_handle, Len(d.edges), Len(d.edges), vertex,
                                  face(d, prev_handle))),
                prev_handle, Len(d.edges)),
            o_next(d, prev_handle), Len(d.edges) + 1),
        vertex, Len(d.edges) + 1)

\* The assert of connect_edge_to_isolated_vertex and of split_edge.
is_isolated_vertex(d, vertex) ==
    Asserted(d, vertex \in VertexHandles(d), out_edge(d, vertex) = None)

\* DCEL::connect_edge_to_isolated_vertex after its assert.
connect_edge_to_isolated_vertex_asserted(d, prev_handle, vertex) ==
    LET prev == EdgeAt(d, prev_handle)
        edge_index == Len(d.edges)
        twin_index == edge_index + 1
        edge == HalfEdgeEntry(twin_index, prev_handle, twin_index,
                              from(d, prev.twin), prev.face)
        twin == HalfEdgeEntry(prev.next, edge_index, edge_index, vertex, prev.face)
        d1 == push_pair(d, edge, twin)
        d2 == SetNext(d1, prev_handle, edge_index)
        d3 == SetPrev(d2, prev.next, twin_index)
    IN  SetOutEdge(d3, vertex, twin_index)

\* DCEL::connect_edge_to_isolated_vertex
connect_edge_to_isolated_vertex(d, prev_handle, vertex) ==
    IF is_isolated_vertex(d, vertex).fault = "none"
    THEN connect_edge_to_isolated_vertex_asserted(d, prev_handle, vertex)
    ELSE is_isolated_vertex(d, vertex)

\* connect_edge_to_edge whose new twin starts where prev_e starts instead of
\* where next_e starts.
connect_edge_to_edge_from_prev(d, prev_edge_handle, next_edge_handle) ==
    SetPrev(
        SetNext(
            SetNext(
                SetPrev(
                    push_pair(d,
                        HalfEdgeEntry(next_edge_handle, prev_edge_handle, Len(d.edges) + 1,
                                      from(d, sym(d, prev_edge_handle)),
                                      face(d, next_edge_handle)),
                        HalfEdgeEntry(o_next(d, prev_edge_handle), o_prev(d, next_edge_handle),
                                      Len(d.edges), from(d, prev_edge_handle),
                                      face(d, next_edge_handle))),
                    next_edge_handle, Len(d.edges)),
                prev_edge_handle, Len(d.edges)),
            o_prev(d, next_edge_handle), Len(d.edges) + 1),
        o_next(d, prev_edge_handle), Len(d.edges) + 1)

\* DCEL::connect_edge_to_edge
connect_edge_to_edge(d, prev_edge_handle, next_edge_handle) ==
    LET edge_index == Len(d.edges)
        twin_index == edge_index + 1
        next_edge == EdgeAt(d, next_edge_handle)
        prev_edge == EdgeAt(d, prev_edge_handle)
        edge == HalfEdgeEntry(next_edge_handle, prev_edge_handle, twin_index,
                              from(d, prev_edge.twin), next_edge.face)
        twin == HalfEdgeEntry(prev_edge.next, next_edge.prev, edge_index,
                              next_edge.origin, next_edge.face)
        d1 == push_pair(d, edge, twin)
        d2 == SetPrev(d1, next_edge_handle, edge_index)
        d3 == SetNext(d2, prev_edge_handle, edge_index)
        d4 == SetNext(d3, next_edge.prev, twin_index)
    IN  SetPrev(d4, prev_edge.next, twin_index)

\* DCEL::split_edge after its assert.
split_edge_asserted(d, edge_handle, split_vertex) ==
    LET edge == EdgeAt(d, edge_handle)
        twin == EdgeAt(d, edge.twin)
        is_isolated == edge.next = edge.twin
        new_edge_index == Len(d.edges)
        new_twin_index == new_edge_index + 1
        new_edge_next == IF is_isolated THEN new_twin_index ELSE edge.next
        new_twin_prev == IF is_isolated THEN new_edge_index ELSE twin.prev
        new_edge == HalfEdgeEntry(new_edge_next, edge_handle, new_twin_index,
                                  split_vertex, edge.face)
        new_twin == HalfEdgeEntry(edge.twin, new_twin_prev, new_edge_index,
                                  twin.origin, twin.face)
        d1 == IF is_isolated THEN d
              ELSE SetNext(SetPrev(d, edge.next, new_edge_index),
                           twin.prev, new_twin_index)
        d2 == SetPrev(d1, edge.twin, new_twin_index)
        d3 == SetNext(d2, edge_handle, new_edge_index)
        d4 == SetOrigin(d3, edge.twin, split_vertex)
        d5 == SetOutEdge(d4, twin.origin, new_twin_index)
        d6 == SetOutEdge(d5, split_vertex, new_edge_index)
    IN  push_pair(d6, new_edge, new_twin)

\* split_edge that does not check its vertex.
split_edge_unchecked(d, edge_handle, split_vertex) ==
    split_edge_asserted(d, edge_handle, split_vertex)

\* DCEL::split_edge
split_edge(d, edge_handle, split_vertex) ==
    IF is_isolated_vertex(d, split_vertex).fault = "none"
    THEN split_edge_asserted(d, edge_handle, split_vertex)
    ELSE is_isolated_vertex(d, split_vertex)

\* The walk of ONextIterator from cur up to until, following next.  A walk
\* that has not met until after fuel steps is cut there: on such a ring the
\* source's collect() would not return.
RECURSIVE o_next_walk(_, _, _, _)
o_next_walk(d, cur, until, fuel) ==
    IF cur = until \/ fuel = 0 THEN <<cur>>
    ELSE <<cur>> \o o_next_walk(d, o_next(d, cur), until, fuel - 1)

\* EdgeHandle::o_next_iterator collected: ONextIterator::new starts at the
\* edge and ends at its o_prev.
o_next_iterator(d, e) == o_next_walk(d, e, o_prev(d, e), Len(d.edges))

\* A collected walk ended because it met its last element, and went through
\* entries in bounds only.
Ended(d, walk, until) ==
    IF walk = <<>> THEN d
    ELSE IF \E i \in 1 .. Len(walk) : walk[i] \notin EdgeHandles(d) THEN Fault(d, "panic")
    ELSE IF walk[Len(walk)] # until THEN Fault(d, "hang")
    ELSE d

\* FaceHandle::adjacent_edges collected.
adjacent_edges(d, f) ==
    IF adjacent_edge(d, f) = None THEN <<>>
    ELSE o_next_iterator(d, adjacent_edge(d, f))

\* ccw that takes the twin of the next half-edge instead of the previous.
ccw_by_next(d, e) == sym(d, o_next(d, e))

\* EdgeHandle::ccw and EdgeHandle::cw
ccw(d, e) == sym(d, o_prev(d, e))
cw(d, e) == o_next(d, sym(d, e))

\* The walk of CCWIterator from cur up to until, following ccw.
RECURSIVE ccw_walk(_, _, _, _)
ccw_walk(d, cur, until, fuel) ==
    IF cur = until \/ fuel = 0 THEN <<cur>>
    ELSE <<cur>> \o ccw_walk(d, ccw(d, cur), until, fuel - 1)

\* VertexHandle::ccw_out_edges collected: CCWIterator::new starts at the ccw
\* of the vertex's out_edge and ends at the out_edge.
ccw_out_edges(d, v) ==
    IF out_edge(d, v) = None THEN <<>>
    ELSE ccw_walk(d, ccw(d, out_edge(d, v)), out_edge(d, v), Len(d.edges))

\* A relabelling loop that writes no face.
set_faces_skipped(d, neighs, f) == d

\* The loops `for n in neighs { self.edges[n].face = f }` and
\* `for e in to_update { self.edges[e].origin = v }`.
RECURSIVE set_faces(_, _, _)
set_faces(d, neighs, f) ==
    IF neighs = <<>> THEN d
    ELSE set_faces(SetFace(d, Head(neighs), f), Tail(neighs), f)

RECURSIVE set_origins(_, _, _)
set_origins(d, to_update, v) ==
    IF to_update = <<>> THEN d
    ELSE set_origins(SetOrigin(d, Head(to_update), v), Tail(to_update), v)

\* DCEL::create_face, the loop that sets the face to the left of the new
\* edge.
RECURSIVE create_face_loop(_, _, _, _, _)
create_face_loop(d, cur_edge, edge_index, new_face, fuel) ==
    IF o_next(d, cur_edge) = edge_index THEN SetFace(d, cur_edge, new_face)
    ELSE IF fuel = 0 THEN Fault(SetFace(d, cur_edge, new_face), "hang")
    ELSE create_face_loop(SetFace(d, cur_edge, new_face), o_next(d, cur_edge),
                          edge_index, new_face, fuel - 1)

\* DCEL::create_face, after connect_edge_to_edge has returned edge_index:
\* the new face is pushed with adjacent_edge = Some(edge_index) and the ring
\* of the new edge is given the new face.
push_face(d, edge_index) ==
    create_face_loop(
        [d EXCEPT !.faces = Append(d.faces, [adjacent_edge |-> edge_index])],
        edge_index, edge_index, Len(d.faces), Len(d.edges))

\* The same statement writing the entry of the outer face, whatever the face
\* of e.
set_adjacent_edge_of_outer_face(d, e) == SetAdjacentEdge(d, 0, e)

\* self.faces[self.edges[e].face].adjacent_edge = Some(e)
set_adjacent_edge_of_face(d, e) == SetAdjacentEdge(d, face(d, e), e)

\* DCEL::create_face, its last two statements: the face of the twin of the
\* new edge takes the twin as its adjacent_edge.
set_adjacent_edge_of_twin_face(d, edge_index) ==
    set_adjacent_edge_of_face(ReadsEdge(d, edge_index), sym(d, edge_index))

\* DCEL::create_face
create_face(d, prev_edge_handle, next_edge_handle) ==
    set_adjacent_edge_of_twin_face(
        push_face(connect_edge_to_edge(d, prev_edge_handle, next_edge_handle),
                  Len(d.edges)),
        Len(d.edges))

\* self.edges[e].origin = self.edges[x].origin
copy_origin(d, e, x) == SetOrigin(d, e, from(d, x))

\* self.edges[e].face = self.edges[x].face
copy_face(d, e, x) == SetFace(d, e, face(d, x))

\* self.vertices[self.edges[e].origin].out_edge = Some(x)
set_out_edge_of_origin(d, e, x) == SetOutEdge(d, from(d, e), x)

\* flip_cw with the two origins crossed: e takes the origin of tp and t the
\* origin of ep.
flip_cw_origins_crossed(d, e, t, ep, tp) ==
    SetOrigin(SetOrigin(d, e, from(d, tp)), t, from(d, ep))

\* DCEL::flip_cw, its two origin assignments: e takes the origin of ep and t
\* the origin of tp.
flip_cw_origins(d, e, t, ep, tp) == copy_origin(copy_origin(d, e, ep), t, tp)

\* DCEL::flip_cw
flip_cw(d, e) ==
    LET en == o_next(d, e)
        ep == o_prev(d, e)
        t == sym(d, e)
        tn == o_next(d, t)
        tp == o_prev(d, t)
        d1 == SetPrev(SetNext(d, en, e), en, tp)
        d2 == SetPrev(SetNext(d1, e, tp), e, en)
        d3 == SetPrev(SetNext(d2, tp, en), tp, e)
        d4 == SetPrev(SetNext(d3, tn, t), tn, ep)
        d5 == SetPrev(SetNext(d4, t, ep), t, tn)
        d6 == SetPrev(SetNext(d5, ep, tn), ep, t)
        d7 == set_out_edge_of_origin(d6, e, tn)
        d8 == set_out_edge_of_origin(d7, t, en)
        d10 == flip_cw_origins(d8, e, t, ep, tp)
        d11 == set_adjacent_edge_of_face(d10, e)
        d12 == set_adjacent_edge_of_face(d11, t)
        d13 == copy_face(d12, tp, e)
    IN  copy_face(d13, ep, t)

\* swap_out_edge that does not tell the twin of the moved entry its new handle.
update_edge_index_without_twin(d, edge, edge_handle) ==
    SetNext(SetPrev(d, edge.next, edge_handle), edge.prev, edge_handle)

\* DCEL::swap_out_edge, "Update edge index": the neighbours and the twin of
\* the moved entry are pointed at its new handle.
update_edge_index(d, edge, edge_handle) ==
    SetTwin(SetNext(SetPrev(d, edge.next, edge_handle), edge.prev, edge_handle),
            edge.twin, edge_handle)

\* swap_out_edge that leaves the out_edge of the moved entry's origin alone.
update_out_edge_skipped(d, edge, old_handle, edge_handle) == d

\* DCEL::swap_out_edge: the out_edge of the moved entry's origin follows it.
update_out_edge(d, edge, old_handle, edge_handle) ==
    IF out_edge(d, edge.origin) = old_handle
    THEN SetOutEdge(d, edge.origin, edge_handle)
    ELSE ReadsVertex(d, edge.origin)

\* DCEL::swap_out_edge after self.edges.swap_remove(edge_handle): when an
\* entry has moved into edge_handle, what refers to it is updated.
moved_edge(d, edge, old_handle, edge_handle) ==
    SetAdjacentEdge(
        update_out_edge(update_edge_index(d, edge, edge_handle),
                        edge, old_handle, edge_handle),
        edge.face, edge_handle)

after_swap_remove_edge(d, edge_handle) ==
    IF Len(d.edges) > edge_handle
    THEN moved_edge(d, EdgeAt(d, edge_handle), Len(d.edges), edge_handle)
    ELSE d

\* DCEL::swap_out_edge
swap_out_edge(d, edge_handle) ==
    IF edge_handle \in EdgeHandles(d)
    THEN after_swap_remove_edge(
             [d EXCEPT !.edges = swap_remove(d.edges, edge_handle)], edge_handle)
    ELSE Fault(d, "panic")

\* The ring collected in neighs is walked to its end and every half-edge of
\* it is given the face f.
relabel_ring(d, neighs, f) ==
    set_faces(Ended(d, neighs, o_prev(d, adjacent_edge(d, f))), neighs, f)

\* `let neighs = self.face(f).adjacent_edges()...collect(); for n in neighs
\* { self.edges[n].face = f }` of remove_edge and remove_face.
relabel_face(d, f) == relabel_ring(ReadsFace(d, f), adjacent_edges(d, f), f)

\* DCEL::remove_face
remove_face(d, f) ==
    IF f \notin FaceHandles(d) THEN Fault(d, "panic")
    ELSE IF Len(d.faces) - 1 > f
    THEN relabel_face([d EXCEPT !.faces = swap_remove(d.faces, f)], f)
    ELSE [d EXCEPT !.faces = swap_remove(d.faces, f)]

\* DCEL::remove_edge, the choice of (to_remove, to_keep): the side of the
\* twin is kept when remaining_face is Some(twin.face), and the side of the
\* edge otherwise.
to_keep(edge, twin, remaining_face) ==
    IF remaining_face = twin.face THEN twin ELSE edge

to_remove(edge, twin, remaining_face) ==
    IF remaining_face = twin.face THEN edge ELSE twin

\* remove_edge that never clears the out_edge of an endpoint.
endpoint_out_edge_always_some(neighbour, twin_handle, replacement) == replacement

\* DCEL::remove_edge, the new out_edge of an endpoint: None when the
\* neighbour of the removed edge on that side is its own twin (the endpoint
\* loses its last edge), and Some(replacement) otherwise.
endpoint_out_edge(neighbour, twin_handle, replacement) ==
    IF neighbour = twin_handle THEN None ELSE replacement

\* remove_edge that swaps out the half-edge and leaves its twin in.
swap_out_pair_edge_only(d, edge_handle, twin_handle) ==
    swap_out_edge(d, edge_handle)

\* DCEL::remove_edge, the two swap_out_edge calls: "We must remove the
\* larger index first to prevent the other edge from being updated".
swap_out_pair(d, edge_handle, twin_handle) ==
    IF edge_handle > twin_handle
    THEN swap_out_edge(swap_out_edge(d, edge_handle), twin_handle)
    ELSE swap_out_edge(swap_out_edge(d, twin_handle), edge_handle)

\* DCEL::remove_edge, the new adjacent_edge of the face kept: None when an
\* isolated edge is removed, and otherwise a neighbour of the removed edge,
\* which is given the face.
new_adjacent(d, edge, keep_face) ==
    IF edge.prev = edge.twin /\ edge.next = edge.twin
    THEN SetAdjacentEdge(d, keep_face, None)
    ELSE IF edge.prev # edge.twin
    THEN SetFace(SetAdjacentEdge(d, keep_face, edge.prev), edge.prev, keep_face)
    ELSE SetFace(SetAdjacentEdge(d, keep_face, edge.next), edge.next, keep_face)

\* DCEL::remove_edge
remove_edge(d, edge_handle, remaining_face) ==
    LET edge == EdgeAt(d, edge_handle)
        twin == EdgeAt(d, edge.twin)
        d1 == SetNext(ReadsEdge(ReadsEdge(d, edge_handle), edge.twin),
                      edge.prev, twin.next)
        d2 == SetPrev(d1, twin.next, edge.prev)
        d3 == SetPrev(d2, edge.next, twin.prev)
        d4 == SetNext(d3, twin.prev, edge.next)
        keep == to_keep(edge, twin, remaining_face)
        remove == to_remove(edge, twin, remaining_face)
        d5 == new_adjacent(d4, edge, keep.face)
        d6 == SetOutEdge(d5, edge.origin,
                         endpoint_out_edge(edge.prev, edge.twin, twin.next))
        d7 == SetOutEdge(d6, twin.origin,
                         endpoint_out_edge(edge.next, edge.twin, edge.next))
        d8 == swap_out_pair(d7, edge_handle, edge.twin)
    IN  IF edge.face # twin.face
        THEN remove_face(relabel_face(d8, keep.face), remove.face)
        ELSE d8

\* DCEL::remove_vertex: the loop `while let Some(out_edge) = ...`, then the
\* swap-removal of the vertex entry and the update of the origins of the
\* relocated vertex's out edges.  The result carries the returned
\* VertexRemovalResult.updated_vertex next to the DCEL.
RECURSIVE remove_vertex_loop(_, _, _, _)
remove_vertex_loop(d, vertex_handle, remaining_face, fuel) ==
    IF out_edge(d, vertex_handle) = None \/ d.fault # "none" THEN d
    ELSE IF fuel = 0 THEN Fault(d, "hang")
    ELSE remove_vertex_loop(
             remove_edge(d, out_edge(d, vertex_handle), remaining_face),
             vertex_handle, remaining_face, fuel - 1)

update_origins(d, to_update, vertex_handle) ==
    set_origins(Ended(d, to_update, out_edge(d, vertex_handle)),
                to_update, vertex_handle)

\* remove_vertex that reports the handle the relocated vertex has after the
\* call.
after_swap_remove_vertex_new_handle(d, vertex_handle, data) ==
    IF Len(d.vertices) = vertex_handle
    THEN [dcel |-> d, updated_vertex |-> None, data |-> data]
    ELSE [dcel |-> update_origins(d, ccw_out_edges(d, vertex_handle), vertex_handle),
          updated_vertex |-> vertex_handle, data |-> data]

\* DCEL::remove_vertex after self.vertices.swap_remove(vertex_handle).
after_swap_remove_vertex(d, vertex_handle, data) ==
    IF Len(d.vertices) = vertex_handle
    THEN [dcel |-> d, updated_vertex |-> None, data |-> data]
    ELSE [dcel |-> update_origins(d, ccw_out_edges(d, vertex_handle), vertex_handle),
          updated_vertex |-> Len(d.vertices), data |-> data]

\* remove_vertex with Vec::remove in place of Vec::swap_remove: the entries
\* after the removed one each move down by one.
shift_remove_vertex(d, vertex_handle) ==
    after_swap_remove_vertex(
        [d EXCEPT !.vertices = SubSeq(d.vertices, 1, vertex_handle)
                               \o SubSeq(d.vertices, vertex_handle + 2, Len(d.vertices))],
        vertex_handle, d.vertices[vertex_handle + 1].data)

swap_remove_vertex(d, vertex_handle) ==
    after_swap_remove_vertex(
        [d EXCEPT !.vertices = swap_remove(d.vertices, vertex_handle)],
        vertex_handle, d.vertices[vertex_handle + 1].data)

remove_vertex(d, vertex_handle, remaining_face) ==
    swap_remove_vertex(
        remove_vertex_loop(d, vertex_handle, remaining_face, Len(d.edges)),
        vertex_handle)

\* The handle that refers, after swap_remove(h) on a vector of n entries, to
\* the entry that had handle x before (None for the removed entry).
relocated(n, h, x) ==
    IF x = None \/ x = h THEN None
    ELSE IF x = n - 1 THEN h
    ELSE x

\* The same through the two swap_out_edge calls of remove_edge, which remove
\* the larger handle of the pair first.
relocated_edge(d, edge_handle, x) ==
    LET n == Len(d.edges)
        hi == IF edge_handle > sym(d, edge_handle) THEN edge_handle
              ELSE sym(d, edge_handle)
        lo == IF edge_handle > sym(d, edge_handle) THEN sym(d, edge_handle)
              ELSE edge_handle
    IN  relocated(n - 1, lo, relocated(n, hi, x))

\* The set of half-edges on the next-ring of e.
Range(s) == {s[i] : i \in 1 .. Len(s)}
Ring(d, e) == Range(o_next_iterator(d, e))

\* struct ONextIterator and struct CCWIterator: cur_until is Some((cur,
\* until)) while live and None after; kind tells the two structs apart.
\* The other fields record how the iterator was made (start, the half-edge
\* it begins with, and owner, the vertex of ccw_out_edges or the face of
\* adjacent_edges), what next() and next_back() have returned so far (front
\* and back), and whether one of them has panicked.
Iterator(kind, live, cur, until, start, owner) ==
    [kind |-> kind, live |-> live, cur |-> cur, until |-> until, start |-> start,
     owner |-> owner, front |-> <<>>, back |-> <<>>, fault |-> "none"]

\* No iterator borrows the DCEL.
NoIterator == Iterator("none", FALSE, None, None, None, None)

\* struct BoundingRect with the record of the call that made or used it: op,
\* the rect before the call (old), the argument (arg) and what the call
\* returned (out).
RectAfter(op, lower, upper, old, arg, out) ==
    [made |-> TRUE, lower |-> lower, upper |-> upper, op |-> op, old |-> old,
     arg |-> arg, out |-> out]

\* No BoundingRect has been made.
NoRect ==
    [made |-> FALSE, lower |-> None, upper |-> None, op |-> "none", old |-> None,
     arg |-> None, out |-> None]

\* The record of the last call: its name, its handle and face arguments, the
\* handle it returned (updated_vertex for remove_vertex) and, for
\* remove_edge, the faces on the two sides of the edge before the call
\* (ef, tf), the face handle of the side the call chose to keep
\* (to_keep.face) and the handle that a half-edge of the merged ring has
\* after the call.
Call(op, a, rf, ret, ef, tf, keep, kept) ==
    [op |-> op, a |-> a, rf |-> rf, ret |-> ret, ef |-> ef, tf |-> tf,
     keep |-> keep, kept |-> kept]

Returned(op, ret) == Call(op, None, None, ret, None, None, None, None)

\* The mesh of test_create_triangle after its first two calls: two vertices
\* without edges.
TwoIsolatedVertices == insert_vertex(insert_vertex(new_with_edge, Unit), Unit)

\* The mesh of test_create_triangle: e01 = 0, e12 = 2, e20 = 4.
Triangle ==
    LET d0 == insert_vertex(insert_vertex(insert_vertex(new_with_edge, Unit), Unit), Unit)
        d1 == connect_two_isolated_vertices(d0, 0, 1, 0)
        d2 == connect_edge_to_isolated_vertex(d1, 0, 2)
    IN  create_face(d2, 2, 0)

\* The mesh of test_flip and test_cw_ccw before the flip: a quadrilateral
\* e01 = 0, e12 = 2, e23 = 4, e30 = 6 with the diagonal e_flip = 8.
Quadrilateral ==
    LET d0 == insert_vertex(insert_vertex(insert_vertex(insert_vertex(
                  new_with_edge, Unit), Unit), Unit), Unit)
        d1 == connect_two_isolated_vertices(d0, 0, 1, 0)
        d2 == connect_edge_to_isolated_vertex(d1, 0, 2)
        d3 == connect_edge_to_isolated_vertex(d2, 2, 3)
        d4 == create_face(d3, 4, 0)
    IN  create_face(d4, 6, 4)

\* The mesh of test_split_half_isolated before the split: the path
\* v0 - v1 - v2 and the isolated vertex v_split.
PathAndVertex ==
    LET d0 == insert_vertex(insert_vertex(insert_vertex(insert_vertex(
                  new_with_edge, Unit), Unit), Unit), Unit)
        d1 == connect_two_isolated_vertices(d0, 0, 1, 0)
    IN  connect_edge_to_isolated_vertex(d1, 0, 2)

\* The triangle with a path of two edges hanging from v0 into the outer face.
TriangleWithTail ==
    LET d0 == insert_vertex(insert_vertex(Triangle, Unit), Unit)
        d1 == connect_edge_to_isolated_vertex(d0, 1, 3)
    IN  connect_edge_to_isolated_vertex(d1, 6, 4)

\* The same with the tail closed in by an edge from v0 round to v0:
\* create_face(7, 6), the two half-edges being on the outer ring and not
\* consecutive on it.
TailInLoop == create_face(TriangleWithTail, 7, 6)

\* The lone triangle after flip_cw(e12): the inner and the outer ring both
\* have three half-edges, so the call meets the precondition of flip_cw, and
\* it leaves e12 going from v0 to v0.
FlippedTriangle == flip_cw(Triangle, 2)

Starts ==
    {new_with_edge, TwoIsolatedVertices, Triangle, Quadrilateral, PathAndVertex,
     TriangleWithTail, TailInLoop, FlippedTriangle}

\* No half-edge of d goes from a vertex to the same vertex.
NoSelfLoop(d) == \A e \in EdgeHandles(d) : from(d, e) # from(d, sym(d, e))

Init ==
    /\ \E d \in Starts :
          /\ vertices = d.vertices
          /\ edges = d.edges
          /\ faces = d.faces
          /\ simple = NoSelfLoop(d)
    /\ last = Returned("new", None)
    /\ steps = 0
    /\ iter = NoIterator
    /\ rect = NoRect

\* The state after a call that returned d: a call that panicked or did not
\* end leaves no DCEL to go on with, and only the fault is recorded. simple
\* records that no call so far has made an edge from a vertex to itself.
Becomes(d, call) ==
    IF d.fault = "none"
    THEN /\ vertices' = d.vertices
         /\ edges' = d.edges
         /\ faces' = d.faces
         /\ last' = call
         /\ simple' = (simple /\ NoSelfLoop(d))
         /\ steps' = steps + 1
         /\ iter' = NoIterator
         /\ rect' = rect
    ELSE /\ UNCHANGED <<vertices, edges, faces, simple>>
         /\ last' = Returned(d.fault, None)
         /\ steps' = steps + 1
         /\ iter' = NoIterator
         /\ rect' = rect

\* Option<FixedFaceHandle> arguments: None or Some of a face in range.
OptFaces(d) == {None} \cup FaceHandles(d)

InsertVertex ==
    /\ steps < MaxSteps
    /\ Becomes(insert_vertex(D, Unit),
               Returned("insert_vertex", Len(vertices)))

ConnectTwoIsolatedVertices ==
    /\ steps < MaxSteps
    /\ \E v0 \in VertexHandles(D), v1 \in VertexHandles(D), f \in FaceHandles(D) :
          /\ out_edge(D, v0) = None
          /\ out_edge(D, v1) = None
          /\ adjacent_edge(D, f) = None
          /\ Becomes(connect_two_isolated_vertices(D, v0, v1, f),
                     Returned("connect_two_isolated_vertices", Len(edges)))

ConnectEdgeToIsolatedVertex ==
    /\ steps < MaxSteps
    /\ \E prev_handle \in EdgeHandles(D), vertex \in VertexHandles(D) :
          /\ out_edge(D, vertex) = None
          /\ Becomes(connect_edge_to_isolated_vertex(D, prev_handle, vertex),
                     Returned("connect_edge_to_isolated_vertex", Len(edges)))

\* EdgeHandle::to
to(d, e) == from(d, sym(d, e))

\* The precondition of create_face: both half-edges on one face ring and not
\* consecutive on it.
SameRingNotConsecutive(d, prev_e, next_e) ==
    /\ next_e \in Ring(d, prev_e)
    /\ next_e # o_next(d, prev_e)

CreateFace ==
    /\ steps < MaxSteps
    /\ \E prev_e \in EdgeHandles(D), next_e \in EdgeHandles(D) :
          /\ SameRingNotConsecutive(D, prev_e, next_e)
          /\ Becomes(create_face(D, prev_e, next_e),
                     Returned("create_face", Len(edges)))

SplitEdge ==
    /\ steps < MaxSteps
    /\ \E e \in EdgeHandles(D), split_vertex \in VertexHandles(D) :
          /\ out_edge(D, split_vertex) = None
          /\ Becomes(split_edge(D, e, split_vertex),
                     Returned("split_edge", Len(edges)))

\* The next-ring of e has exactly three half-edges.
IsTriangle(d, e) ==
    /\ o_next(d, o_next(d, o_next(d, e))) = e
    /\ o_next(d, e) # e

\* The precondition of flip_cw: the faces on both sides of e are triangles.
TwoTriangles(d, e) ==
    /\ IsTriangle(d, e)
    /\ IsTriangle(d, sym(d, e))

FlipCw ==
    \E e \in EdgeHandles(D) :
       /\ steps < MaxSteps
       /\ TwoTriangles(D, e)
       /\ Becomes(flip_cw(D, e),
                  Call("flip_cw", e, None, None, None, None, None, None))

RemoveEdge ==
    \E e \in EdgeHandles(D), rf \in OptFaces(D) :
       /\ steps < MaxSteps
       /\ Becomes(remove_edge(D, e, rf),
                  Call("remove_edge", e, rf, None, face(D, e), face(D, sym(D, e)),
                          to_keep(EdgeAt(D, e), EdgeAt(D, sym(D, e)), rf).face,
                          relocated_edge(D, e,
                              IF o_prev(D, e) # sym(D, e) THEN o_prev(D, e)
                              ELSE IF o_next(D, e) # sym(D, e) THEN o_next(D, e)
                              ELSE None)))

\* The state after remove_vertex has returned r.
Removed(r, v, rf) ==
    Becomes(r.dcel, Call("remove_vertex", v, rf, r.updated_vertex, None, None, None, None))

RemoveVertex ==
    \E v \in VertexHandles(D), rf \in OptFaces(D) :
       /\ steps < MaxSteps
       /\ Removed(remove_vertex(D, v, rf), v, rf)

Next ==
    \/ InsertVertex
    \/ ConnectTwoIsolatedVertices
    \/ ConnectEdgeToIsolatedVertex
    \/ CreateFace
    \/ SplitEdge
    \/ FlipCw
    \/ RemoveEdge
    \/ RemoveVertex

Spec == Init /\ [][Next]_vars

\* The half-edge reached from e by k steps of next, of prev, of twin-then-next.
RECURSIVE NextPow(_, _, _)
NextPow(d, e, k) == IF k = 0 THEN e ELSE NextPow(d, o_next(d, e), k - 1)

RECURSIVE PrevPow(_, _, _)
PrevPow(d, e, k) == IF k = 0 THEN e ELSE PrevPow(d, o_prev(d, e), k - 1)

RECURSIVE CwPow(_, _, _)
CwPow(d, e, k) == IF k = 0 THEN e ELSE CwPow(d, cw(d, e), k - 1)

\* The half-edges reached from e by following next, prev, twin-then-next.
NextReach(d, e) == {NextPow(d, e, k) : k \in 0 .. Len(d.edges)}
PrevReach(d, e) == {PrevPow(d, e, k) : k \in 0 .. Len(d.edges)}
CwReach(d, e) == {CwPow(d, e, k) : k \in 0 .. Len(d.edges)}

\* The three identities of sanity_check for one half-edge.
LinksOk(d, e) ==
    /\ sym(d, sym(d, e)) = e
    /\ o_prev(d, o_next(d, e)) = e
    /\ o_next(d, o_prev(d, e)) = e

\* C1: after any sequence of the mutating operations, each called with its
\* precondition met, every half-edge e has twin(twin(e)) = e,
\* prev(next(e)) = e and next(prev(e)) = e.
InvLinks == \A e \in EdgeHandles(D) : LinksOk(D, e)

\* C1, amended: the same when, moreover, no call has made an edge from a
\* vertex to itself.
SimpleInvLinks == simple => InvLinks

\* C2: every vertex v with out_edge = Some(e) has origin(e) = v.
InvOutEdgeOrigin ==
    \A v \in VertexHandles(D) :
       out_edge(D, v) # None => from(D, out_edge(D, v)) = v

\* C2, amended: the same when no call has made an edge from a vertex to
\* itself.
SimpleInvOutEdgeOrigin == simple => InvOutEdgeOrigin

InvFaceRing ==
    \A e \in EdgeHandles(D) :
       /\ \E k \in 1 .. Len(edges) : NextPow(D, e, k) = e
       /\ \A x \in NextReach(D, e) : face(D, x) = face(D, e)
       /\ NextReach(D, e) = PrevReach(D, e)

\* C4, for the sequences in which no call has made an edge from a vertex to
\* itself: every next-ring closes on one face and is the prev-ring.
SimpleInvFaceRing == simple => InvFaceRing

\* C5: following twin-then-next from any half-edge returns to it after
\* finitely many steps and every half-edge on the way has the origin of the
\* start.
InvVertexRing ==
    \A e \in EdgeHandles(D) :
       /\ \E k \in 1 .. Len(edges) : CwPow(D, e, k) = e
       /\ \A x \in CwReach(D, e) : from(D, x) = from(D, e)

\* C5, amended: the same when no call has made an edge from a vertex to
\* itself.
SimpleInvVertexRing == simple => InvVertexRing

\* C6: a vertex has out_edge = None if and only if no half-edge has it as
\* its origin.
InvIsolated ==
    \A v \in VertexHandles(D) :
       out_edge(D, v) = None <=> ~ \E e \in EdgeHandles(D) : from(D, e) = v

\* C6, amended: the same when no call has made an edge from a vertex to
\* itself.
SimpleInvIsolated == simple => InvIsolated

\* C7: the number of half-edges is even and the twin of the half-edge at
\* index 2k is the one at index 2k+1, and the other way round.
InvTwinPairs ==
    /\ Len(edges) % 2 = 0
    /\ \A e \in EdgeHandles(D) :
          sym(D, e) = IF e % 2 = 0 THEN e + 1 ELSE e - 1

\* The last call was remove_edge on an edge with different faces on its two
\* sides, one of them face 0, and it left a merged ring.
RemovedOuterEdge ==
    /\ last.op = "remove_edge"
    /\ last.ef # last.tf
    /\ 0 \in {last.ef, last.tf}
    /\ last.kept # None

\* C8: there is always at least one face, and after remove_edge on an edge
\* that separates face 0 from another face, whatever remaining_face was, the
\* merged ring is the ring of face 0.
OuterFaceStaysZero ==
    /\ Len(faces) >= 1
    /\ RemovedOuterEdge =>
          \A x \in NextReach(D, last.kept) : face(D, x) = 0

\* C9: after remove_edge(e, Some(f)) on an edge that separates two different
\* faces, f one of them, f is a face handle in range and every half-edge of
\* the merged ring has face f.
NominatedFaceSurvives ==
    (/\ last.op = "remove_edge"
     /\ last.ef # last.tf
     /\ last.rf \in {last.ef, last.tf}
     /\ last.kept # None)
    => /\ last.rf \in FaceHandles(D)
       /\ \A x \in NextReach(D, last.kept) : face(D, x) = last.rf

\* C10: remove_edge(e, None) on an edge with face 0 on exactly one side keeps
\* the side of the other face, whichever half-edge of the pair e is.
NoneKeepsNonOuter ==
    (/\ last.op = "remove_edge"
     /\ last.rf = None
     /\ last.ef # last.tf
     /\ 0 \in {last.ef, last.tf})
    => last.keep # 0

\* A vertex was removed and another took its handle, with edges left, and
\* the three identities hold.
LinksAfterRemoveVertex ==
    /\ simple
    /\ last.op = "remove_vertex"
    /\ last.ret # None
    /\ Len(edges) >= 4
    /\ InvLinks

\* An edge pair was removed and the last pair moved into its place, the
\* moved half-edge being the out_edge of its origin.
OutEdgeMoved ==
    /\ simple
    /\ last.op = "remove_edge"
    /\ last.a < Len(edges)
    /\ \E v \in VertexHandles(D) : out_edge(D, v) = last.a /\ from(D, last.a) = v

VertexRingsAfterFlip ==
    /\ simple
    /\ last.op = "flip_cw"
    /\ InvVertexRing

\* An edge was removed, other edges are left, and a vertex without edges is
\* exactly a vertex that has out_edge = None, one such vertex being there.
EndpointBecameIsolated ==
    /\ simple
    /\ last.op = "remove_edge"
    /\ Len(edges) >= 2
    /\ \E v \in VertexHandles(D) : out_edge(D, v) = None
    /\ InvIsolated

\* An edge pair other than the last was removed, so that the last pair moved
\* into its place, and the pairs are still at 2k, 2k+1.
PairMoved ==
    /\ last.op = "remove_edge"
    /\ last.a < Len(edges)
    /\ InvTwinPairs

\* No call made with its precondition met panics or fails to return.
NoFault == last.op \notin {"panic", "hang"}

Min(a, b) == IF a < b THEN a ELSE b
Max(a, b) == IF a < b THEN b ELSE a

\* The handle that the neighbour of e which remove_edge makes the
\* adjacent_edge of the face kept (edge.prev, or edge.next when edge.prev is
\* the twin) has after the call; None when e is an isolated edge.
merged_edge(d, e) ==
    relocated_edge(d, e,
        IF o_prev(d, e) # sym(d, e) THEN o_prev(d, e)
        ELSE IF o_next(d, e) # sym(d, e) THEN o_next(d, e)
        ELSE None)

\* r, the DCEL after remove_edge(e, _) on d, has one face entry less than d
\* and, when b was not the highest face handle of d, the half-edges that
\* had the highest face handle in d have the face handle b in r.
SwapRemovedFace(d, r, e, b) ==
    /\ Len(r.faces) = Len(d.faces) - 1
    /\ b < Len(d.faces) - 1 =>
          \A x \in EdgeHandles(d) :
             face(d, x) = Len(d.faces) - 1 => face(r, relocated_edge(d, e, x)) = b

\* r, the DCEL after remove_edge(e, _) on d, has the merged ring in the
\* smaller of the two face handles of e and its twin, and the larger one
\* swap-removed.
MergedIntoSmaller(d, r, e) ==
    r.fault = "none" =>
       /\ merged_edge(d, e) # None =>
             \A x \in Ring(r, merged_edge(d, e)) :
                face(r, x) = Min(face(d, e), face(d, sym(d, e)))
       /\ SwapRemovedFace(d, r, e, Max(face(d, e), face(d, sym(d, e))))

\* C11: remove_edge on an edge that separates two different faces a < b
\* leaves the merged face with the handle a and the entry at b swap-removed:
\* b is out of range or holds the face that had the highest handle.
SmallerFaceWins ==
    \A e \in EdgeHandles(D), rf \in OptFaces(D) :
       face(D, e) # face(D, sym(D, e)) =>
          MergedIntoSmaller(D, remove_edge(D, e, rf), e)

\* DCEL::num_vertices, DCEL::num_edges and DCEL::num_faces
num_vertices(d) == Len(d.vertices)
num_edges(d) == Len(d.edges) \div 2
num_faces(d) == Len(d.faces)

\* The handles that the half-edges of the two rings of e and its twin in d,
\* other than the pair itself, have after remove_edge(e, _).
merged_ring(d, e) ==
    {relocated_edge(d, e, x) :
        x \in (Ring(d, e) \cup Ring(d, sym(d, e))) \ {e, sym(d, e)}}

\* The half-edges in ring are one next-ring of r, all of one face of r whose
\* adjacent_edge is among them.
OneRingOfOneFace(r, ring) ==
    /\ \A m \in ring : Ring(r, m) = ring
    /\ \E f \in FaceHandles(r) :
          /\ \A x \in ring : face(r, x) = f
          /\ adjacent_edge(r, f) \in ring

\* r, the DCEL after remove_edge(e, _) on d, for an edge with different
\* faces on its two sides.
MergedTwoFaces(d, r, e) ==
    r.fault = "none" =>
       /\ num_edges(r) = num_edges(d) - 1
       /\ num_faces(r) = num_faces(d) - 1
       /\ OneRingOfOneFace(r, merged_ring(d, e))

\* r, the DCEL after remove_edge(e, _) on d, for an edge with one face on
\* both sides.
MergedNoFace(d, r) == r.fault = "none" => num_faces(r) = num_faces(d)

\* C12: remove_edge(e, r) on an edge with different faces on its two sides
\* takes away one edge and one face and leaves the two former rings as one
\* next-ring, all of one face handle whose adjacent_edge is on the ring; on
\* an edge with the same face on both sides it leaves num_faces as it was.
RemoveEdgeMerges ==
    \A e \in EdgeHandles(D), rf \in OptFaces(D) :
       IF face(D, e) # face(D, sym(D, e))
       THEN MergedTwoFaces(D, remove_edge(D, e, rf), e)
       ELSE MergedNoFace(D, remove_edge(D, e, rf))

\* C12, for the sequences in which no call has made an edge from a vertex to
\* itself.
SimpleRemoveEdgeMerges == simple => RemoveEdgeMerges

\* The DCEL d with vertex data that tell the vertices apart: the k-th vertex
\* inserted carries k, as after insert_vertex(1), insert_vertex(2), ... with
\* V an integer type.
Labelled(d) ==
    [d EXCEPT !.vertices =
        [i \in 1 .. Len(d.vertices) |-> [d.vertices[i] EXCEPT !.data = i]]]

\* The starting meshes with their vertices labelled.
InitData ==
    /\ \E d \in {Labelled(s) : s \in Starts} :
          /\ vertices = d.vertices
          /\ edges = d.edges
          /\ faces = d.faces
          /\ simple = NoSelfLoop(d)
    /\ last = Returned("new", None)
    /\ steps = 0
    /\ iter = NoIterator
    /\ rect = NoRect

SpecData == InitData /\ [][Next]_vars

\* r, the result of remove_vertex(v, _) on d: updated_vertex is None exactly
\* when v was the highest handle; otherwise the vertex that had the highest
\* handle is at v and updated_vertex is Some(h).
UpdatedVertex(d, r, v, h) ==
    r.dcel.fault = "none" =>
       /\ r.updated_vertex = None <=> v = num_vertices(d) - 1
       /\ v # num_vertices(d) - 1 =>
             /\ r.dcel.vertices[v + 1].data = d.vertices[num_vertices(d)].data
             /\ r.updated_vertex = h

\* C13: remove_vertex(v, r) returns updated_vertex = None exactly when v was
\* the highest vertex handle; otherwise the vertex that had the highest
\* handle is relocated to v and updated_vertex is Some of the handle that
\* refers to it after the call, which is v.
UpdatedVertexIsNewHandle ==
    \A v \in VertexHandles(D), rf \in OptFaces(D) :
       UpdatedVertex(D, remove_vertex(D, v, rf), v, v)

\* C13, amended: the same with updated_vertex Some of the handle that
\* referred to the relocated vertex before the call, the highest handle,
\* which is num_vertices after the call.
UpdatedVertexIsOldHandle ==
    \A v \in VertexHandles(D), rf \in OptFaces(D) :
       UpdatedVertex(D, remove_vertex(D, v, rf), v, num_vertices(D) - 1)

\* A vertex other than the highest was removed from a labelled mesh: the
\* vertex now at its handle carries the label of the highest handle, and
\* that handle, now out of range, was returned.
RelocatedVertexReported ==
    /\ last.op = "remove_vertex"
    /\ last.a < Len(vertices)
    /\ last.ret = Len(vertices)
    /\ vertices[last.a + 1].data = last.ret + 1

\* r, the result of remove_vertex(v, _) on d: one vertex entry less, every
\* vertex other than v and the highest where it was with its data, the
\* highest (when it is not v) at v with its data, and the data of v returned.
OnlyHighestRelocated(d, r, v) ==
    r.dcel.fault = "none" =>
       /\ num_vertices(r.dcel) = num_vertices(d) - 1
       /\ \A u \in VertexHandles(d) \ {v, num_vertices(d) - 1} :
             r.dcel.vertices[u + 1].data = d.vertices[u + 1].data
       /\ v # num_vertices(d) - 1 =>
             r.dcel.vertices[v + 1].data = d.vertices[num_vertices(d)].data
       /\ r.data = d.vertices[v + 1].data

\* C14: remove_vertex(v, r) relocates at most one vertex: every remaining
\* vertex other than the one that had the highest handle keeps its handle
\* and data, the one that had the highest handle, if it is not v, ends up at
\* v with its data, and the data returned is that of the removed vertex.
RemoveVertexRelocatesOne ==
    \A v \in VertexHandles(D), rf \in OptFaces(D) :
       OnlyHighestRelocated(D, remove_vertex(D, v, rf), v)

\* A vertex other than the highest was removed from a labelled mesh and
\* three or more are left: the one at its handle carries the label of the
\* highest handle and every other one the label of its own handle.
OthersKeptHandles ==
    /\ last.op = "remove_vertex"
    /\ last.a < Len(vertices)
    /\ Len(vertices) >= 3
    /\ vertices[last.a + 1].data = Len(vertices) + 1
    /\ \A i \in 1 .. Len(vertices) : i # last.a + 1 => vertices[i].data = i

\* r, the DCEL after create_face(prev_e, next_e) on d, which returned e: e
\* goes from prev_e.to() to next_e.from() between prev_e and next_e.
NewEdgeBetween(d, r, prev_e, next_e, e) ==
    /\ e \in EdgeHandles(r) \ EdgeHandles(d)
    /\ from(r, e) = to(d, prev_e)
    /\ to(r, e) = from(d, next_e)
    /\ o_prev(r, e) = prev_e
    /\ o_next(r, e) = next_e

\* r, the DCEL after create_face on d, which returned e: one face more, the
\* new face handle on exactly the next-ring of e with e as its
\* adjacent_edge, and the twin of e in the old face as its adjacent_edge.
NewFaceOnRing(d, r, old_face, e) ==
    /\ num_faces(r) = num_faces(d) + 1
    /\ \A x \in EdgeHandles(r) : face(r, x) = num_faces(d) <=> x \in Ring(r, e)
    /\ adjacent_edge(r, num_faces(d)) = e
    /\ face(r, sym(r, e)) = old_face
    /\ adjacent_edge(r, old_face) = sym(r, e)

\* The postcondition of create_face(prev_e, next_e) on d, r being the DCEL
\* after the call and e the handle returned.
CreatedFace(d, r, prev_e, next_e, e) ==
    r.fault = "none" =>
       /\ NewEdgeBetween(d, r, prev_e, next_e, e)
       /\ NewFaceOnRing(d, r, face(d, prev_e), e)

\* test_create_triangle: e01 -> e12 -> e20 cycle in face 1 and their twins
\* are in face 0.
TriangleBuilt ==
    /\ o_next(Triangle, 0) = 2 /\ o_next(Triangle, 2) = 4 /\ o_next(Triangle, 4) = 0
    /\ o_prev(Triangle, 0) = 4 /\ o_prev(Triangle, 4) = 2 /\ o_prev(Triangle, 2) = 0
    /\ \A e \in {0, 2, 4} : face(Triangle, e) = 1 /\ face(Triangle, sym(Triangle, e)) = 0

\* C15: create_face(prev_e, next_e) with prev_e and next_e on the same face
\* ring returns a new half-edge e from prev_e.to() to next_e.from() with
\* prev(e) = prev_e and next(e) = next_e; num_faces grows by one; exactly the
\* half-edges of the next-ring of e carry the new face handle, whose
\* adjacent_edge is e; twin(e) keeps the old face and is its adjacent_edge.
\* Hence the triangle of test_create_triangle has e01 -> e12 -> e20 in face 1
\* and the three twins in face 0.
CreateFaceContract ==
    /\ TriangleBuilt
    /\ \A prev_e \in EdgeHandles(D), next_e \in EdgeHandles(D) :
          next_e \in Ring(D, prev_e) =>
             CreatedFace(D, create_face(D, prev_e, next_e), prev_e, next_e,
                         Len(D.edges))

\* The invariants of the DCEL d: twin, next and prev are inverse to each
\* other; every next-ring closes on one face; every twin-then-next ring
\* closes on one origin; out_edge is an outgoing half-edge, and None exactly
\* for a vertex without edges; adjacent_edge is a half-edge of the face, and
\* None exactly for a face without boundary.
Invariants(d) ==
    /\ \A e \in EdgeHandles(d) : LinksOk(d, e)
    /\ \A e \in EdgeHandles(d) :
          /\ \E k \in 1 .. Len(d.edges) : NextPow(d, e, k) = e
          /\ \A x \in NextReach(d, e) : face(d, x) = face(d, e)
    /\ \A e \in EdgeHandles(d) :
          /\ \E k \in 1 .. Len(d.edges) : CwPow(d, e, k) = e
          /\ \A x \in CwReach(d, e) : from(d, x) = from(d, e)
    /\ \A v \in VertexHandles(d) :
          /\ out_edge(d, v) # None => from(d, out_edge(d, v)) = v
          /\ out_edge(d, v) = None <=> ~ \E e \in EdgeHandles(d) : from(d, e) = v
    /\ \A f \in FaceHandles(d) :
          /\ adjacent_edge(d, f) # None => face(d, adjacent_edge(d, f)) = f
          /\ adjacent_edge(d, f) = None <=> ~ \E e \in EdgeHandles(d) : face(d, e) = f

\* The next-ring of e in r is a triangle of the face f whose second and
\* third half-edges start at the vertices b and c.
TriangleLeftOf(r, e, f, b, c) ==
    /\ IsTriangle(r, e)
    /\ from(r, o_next(r, e)) = b
    /\ from(r, o_next(r, o_next(r, e))) = c
    /\ \A x \in Ring(r, e) : face(r, x) = f

\* r, the DCEL after flip_cw(e) on d, t being the twin of e: with e from A
\* to B, C the apex left of e and D the apex left of t, e goes from C to D
\* and t from D to C, the faces of e and t are as before, (C, D, B) is left
\* of e and (D, C, A) left of t, and the invariants hold.
Flipped(d, r, e, t) ==
    r.fault = "none" =>
       /\ sym(r, e) = t /\ sym(r, t) = e
       /\ from(r, e) = from(d, o_prev(d, e))
       /\ from(r, t) = from(d, o_prev(d, t))
       /\ face(r, e) = face(d, e)
       /\ face(r, t) = face(d, t)
       /\ TriangleLeftOf(r, e, face(d, e), from(d, o_prev(d, t)), from(d, t))
       /\ TriangleLeftOf(r, t, face(d, t), from(d, o_prev(d, e)), from(d, e))
       /\ Invariants(r)

\* C16: flip_cw(e) on an edge e from A to B with the triangle (A, B, C) left
\* of it and the triangle (B, A, D) left of its twin leaves e from C to D
\* and its twin from D to C, the faces of e and of its twin unchanged, both
\* faces triangles again, (C, D, B) left of e and (D, C, A) left of the
\* twin, and all DCEL invariants holding.
FlipCwContract ==
    \A e \in EdgeHandles(D) :
       TwoTriangles(D, e) => Flipped(D, flip_cw(D, e), e, sym(D, e))

\* C16, for the sequences in which no call has made an edge from a vertex to
\* itself.
SimpleFlipCwContract == simple => FlipCwContract

\* r, the DCEL after split_edge(e, s) on d, which returned n: with e from A
\* to B, e goes from A to s, n from s to B after e in the face of e, the
\* twin of n from B to s in the face of the twin of e, which starts at s.
SplitInTwo(d, r, e, s, n) ==
    /\ sym(r, e) = sym(d, e)
    /\ from(r, e) = from(d, e)
    /\ to(r, e) = s
    /\ n \in EdgeHandles(r) \ EdgeHandles(d)
    /\ from(r, n) = s
    /\ to(r, n) = to(d, e)
    /\ o_prev(r, n) = e
    /\ face(r, n) = face(d, e)
    /\ from(r, sym(r, n)) = to(d, e)
    /\ to(r, sym(r, n)) = s
    /\ face(r, sym(r, n)) = face(d, sym(d, e))

\* The postcondition of split_edge(e, s) on d, r being the DCEL after the
\* call and n the handle returned.
Split(d, r, e, s, n) ==
    r.fault = "none" =>
       /\ SplitInTwo(d, r, e, s, n)
       /\ num_edges(r) = num_edges(d) + 1
       /\ r.faces = d.faces
       /\ Invariants(r)

\* C17: split_edge(e, s) with s isolated and e from A to B leaves e from A
\* to s, returns a half-edge from s to B with prev = e and the face of e,
\* whose twin goes from B to s with the face of twin(e), twin(e) starting at
\* s; num_edges grows by one, num_faces and every adjacent_edge are
\* unchanged and all DCEL invariants hold, whether B has other edges or e is
\* a dangling spoke.
SplitEdgeContract ==
    \A e \in EdgeHandles(D), s \in VertexHandles(D) :
       out_edge(D, s) = None => Split(D, split_edge(D, e, s), e, s, Len(D.edges))

\* C17, for the sequences in which no call has made an edge from a vertex to
\* itself.
SimpleSplitEdgeContract == simple => SplitEdgeContract

\* What a call leaves as it was: r has the vertex entries of d but for the
\* out_edge of the vertices in vs, the half-edge entries of d but for those
\* in es, and the face entries of d but for those in fs.
SameVerticesExcept(d, r, vs) ==
    /\ Len(r.vertices) = Len(d.vertices)
    /\ \A v \in VertexHandles(d) :
          /\ r.vertices[v + 1].data = d.vertices[v + 1].data
          /\ v \notin vs => r.vertices[v + 1] = d.vertices[v + 1]

SameEdgesExcept(d, r, es) ==
    /\ Len(r.edges) >= Len(d.edges)
    /\ \A x \in EdgeHandles(d) \ es : r.edges[x + 1] = d.edges[x + 1]

SameFacesExcept(d, r, fs) ==
    /\ Len(r.faces) = Len(d.faces)
    /\ \A f \in FaceHandles(d) \ fs : r.faces[f + 1] = d.faces[f + 1]

\* r, the DCEL after connect_two_isolated_vertices(v0, v1, f) on d, which
\* returned e: one pair (e, t) appended, e from v0 and t from v1, each the
\* next and the prev of the other, both in f; e the out_edge of v0, t the
\* out_edge of v1, e the adjacent_edge of f; nothing else changed.
ConnectedTwo(d, r, v0, v1, f, e, t) ==
    r.fault = "none" =>
       /\ Len(r.edges) = Len(d.edges) + 2
       /\ e = Len(d.edges) /\ t = e + 1
       /\ sym(r, e) = t /\ sym(r, t) = e
       /\ from(r, e) = v0 /\ from(r, t) = v1
       /\ o_next(r, e) = t /\ o_prev(r, e) = t
       /\ o_next(r, t) = e /\ o_prev(r, t) = e
       /\ face(r, e) = f /\ face(r, t) = f
       /\ out_edge(r, v0) = e /\ out_edge(r, v1) = t
       /\ adjacent_edge(r, f) = e
       /\ SameVerticesExcept(d, r, {v0, v1})
       /\ SameEdgesExcept(d, r, {})
       /\ SameFacesExcept(d, r, {f})

\* C18: connect_two_isolated_vertices(v0, v1, f) with v0 and v1 isolated and
\* f.adjacent_edge = None appends one twin pair (e, t) with origin(e) = v0,
\* origin(t) = v1, each the next and prev of the other, both of face f, sets
\* out_edge of v0 to e and of v1 to t and f.adjacent_edge to e, returns e and
\* changes nothing else.
ConnectTwoContract ==
    \A v0 \in VertexHandles(D), v1 \in VertexHandles(D), f \in FaceHandles(D) :
       (out_edge(D, v0) = None /\ out_edge(D, v1) = None /\ adjacent_edge(D, f) = None) =>
          ConnectedTwo(D, connect_two_isolated_vertices(D, v0, v1, f), v0, v1, f,
                       Len(D.edges), Len(D.edges) + 1)

\* C18, amended: the same for two different vertices, v0 # v1.
ConnectTwoDistinctContract ==
    \A v0 \in VertexHandles(D), v1 \in VertexHandles(D), f \in FaceHandles(D) :
       (/\ v0 # v1
        /\ out_edge(D, v0) = None /\ out_edge(D, v1) = None
        /\ adjacent_edge(D, f) = None) =>
          ConnectedTwo(D, connect_two_isolated_vertices(D, v0, v1, f), v0, v1, f,
                       Len(D.edges), Len(D.edges) + 1)

\* Two different isolated vertices were connected: the pair returned is an
\* isolated edge between them, the out_edge of its two ends and the
\* adjacent_edge of its face.
TwoVerticesConnected ==
    /\ last.op = "connect_two_isolated_vertices"
    /\ last.ret = Len(edges) - 2
    /\ from(D, last.ret) # to(D, last.ret)
    /\ o_next(D, last.ret) = sym(D, last.ret)
    /\ o_prev(D, last.ret) = sym(D, last.ret)
    /\ out_edge(D, from(D, last.ret)) = last.ret
    /\ out_edge(D, to(D, last.ret)) = sym(D, last.ret)
    /\ adjacent_edge(D, face(D, last.ret)) = last.ret

\* r, the DCEL after connect_edge_to_isolated_vertex(prev_e, v) on d, which
\* returned n, t being the twin of n: n goes from prev_e.to() to v after
\* prev_e, t follows n and goes on to the old next of prev_e, both are in the
\* face of prev_e, t is the out_edge of v, and no face entry and no other
\* vertex entry has changed.
ConnectedToVertex(d, r, prev_e, v, n, t) ==
    r.fault = "none" =>
       /\ Len(r.edges) = Len(d.edges) + 2
       /\ n = Len(d.edges)
       /\ sym(r, n) = t /\ sym(r, t) = n
       /\ from(r, n) = to(d, prev_e)
       /\ from(r, t) = v
       /\ o_prev(r, n) = prev_e
       /\ o_next(r, n) = t
       /\ o_next(r, t) = o_next(d, prev_e)
       /\ face(r, n) = face(d, prev_e)
       /\ face(r, t) = face(d, prev_e)
       /\ out_edge(r, v) = t
       /\ r.faces = d.faces
       /\ SameVerticesExcept(d, r, {v})

\* C19: connect_edge_to_isolated_vertex(prev_e, v) with v isolated returns a
\* new half-edge n from prev_e.to() to v with prev(n) = prev_e and
\* next(n) = twin(n); twin(n) starts at v and its next is the old
\* next(prev_e); both carry face(prev_e); out_edge of v becomes twin(n);
\* num_faces, every adjacent_edge and every other out_edge are unchanged.
ConnectToVertexContract ==
    \A prev_e \in EdgeHandles(D), v \in VertexHandles(D) :
       out_edge(D, v) = None =>
          ConnectedToVertex(D, connect_edge_to_isolated_vertex(D, prev_e, v),
                            prev_e, v, Len(D.edges), Len(D.edges) + 1)

\* C19, for the sequences in which no call has made an edge from a vertex to
\* itself: connect_edge_to_isolated_vertex(prev_e, v) with v isolated appends
\* one twin pair between prev_e and the old next(prev_e), as stated above.
SimpleConnectToVertexContract == simple => ConnectToVertexContract

\* A dangling edge was added at a vertex that has other edges: the half-edge
\* returned follows another half-edge, ends at a vertex whose only edge it
\* is, and its twin goes on round the face.
SpokeConnected ==
    /\ simple
    /\ last.op = "connect_edge_to_isolated_vertex"
    /\ last.ret = Len(edges) - 2
    /\ o_next(D, last.ret) = sym(D, last.ret)
    /\ o_prev(D, last.ret) # sym(D, last.ret)
    /\ o_next(D, sym(D, last.ret)) # last.ret
    /\ out_edge(D, to(D, last.ret)) = sym(D, last.ret)
    /\ face(D, last.ret) = face(D, o_prev(D, last.ret))

\* connect_edge_to_edge called on its own, under the precondition it has
\* inside create_face.
ConnectEdgeToEdge ==
    /\ steps < MaxSteps
    /\ \E prev_e \in EdgeHandles(D), next_e \in EdgeHandles(D) :
          /\ SameRingNotConsecutive(D, prev_e, next_e)
          /\ Becomes(connect_edge_to_edge(D, prev_e, next_e),
                     Returned("connect_edge_to_edge", Len(edges)))

\* The mutating operations with connect_edge_to_edge called on its own.
NextConnect ==
    \/ Next
    \/ ConnectEdgeToEdge

SpecConnect == Init /\ [][NextConnect]_vars

\* r, the DCEL after connect_edge_to_edge(prev_e, next_e) on d, which
\* returned n, t being the twin of n: one pair appended, n from prev_e.to()
\* to next_e.from() between prev_e and next_e, both of the face of next_e,
\* and no face entry and no vertex entry changed.
ConnectedToEdge(d, r, prev_e, next_e, n, t) ==
    r.fault = "none" =>
       /\ Len(r.edges) = Len(d.edges) + 2
       /\ n = Len(d.edges)
       /\ sym(r, n) = t /\ sym(r, t) = n
       /\ from(r, n) = to(d, prev_e)
       /\ from(r, t) = from(d, next_e)
       /\ o_prev(r, n) = prev_e
       /\ o_next(r, n) = next_e
       /\ face(r, n) = face(d, next_e)
       /\ face(r, t) = face(d, next_e)
       /\ r.faces = d.faces
       /\ r.vertices = d.vertices

Misused(d, call) ==
    IF d.fault = "none" THEN Becomes(d, call)
    ELSE /\ UNCHANGED <<vertices, edges, faces, simple>>
         /\ last' = [call EXCEPT !.op = d.fault]
         /\ steps' = steps + 1
         /\ iter' = NoIterator
         /\ rect' = rect

\* connect_two_isolated_vertices called with a vertex that has an edge or
\* with a face that has one.
ConnectTwoMisused ==
    /\ steps < MaxSteps
    /\ \E v0 \in VertexHandles(D), v1 \in VertexHandles(D), f \in FaceHandles(D) :
          /\ \/ out_edge(D, v0) # None
             \/ out_edge(D, v1) # None
             \/ adjacent_edge(D, f) # None
          /\ Misused(connect_two_isolated_vertices(D, v0, v1, f),
                     Call("connect_two_isolated_vertices", v0, f, v1,
                          None, None, None, None))

\* connect_edge_to_isolated_vertex called with a vertex that has an edge.
ConnectEdgeToVertexMisused ==
    /\ steps < MaxSteps
    /\ \E prev_handle \in EdgeHandles(D), vertex \in VertexHandles(D) :
          /\ out_edge(D, vertex) # None
          /\ Misused(connect_edge_to_isolated_vertex(D, prev_handle, vertex),
                     Call("connect_edge_to_isolated_vertex", vertex, None, prev_handle,
                          None, None, None, None))

\* split_edge called with a vertex that has an edge.
SplitEdgeMisused ==
    /\ steps < MaxSteps
    /\ \E e \in EdgeHandles(D), split_vertex \in VertexHandles(D) :
          /\ out_edge(D, split_vertex) # None
          /\ Misused(split_edge(D, e, split_vertex),
                     Call("split_edge", split_vertex, None, e, None, None, None, None))

\* The mutating operations, the three asserting ones also called against
\* their preconditions.
NextMisuse ==
    \/ Next
    \/ ConnectTwoMisused
    \/ ConnectEdgeToVertexMisused
    \/ SplitEdgeMisused

SpecMisuse == Init /\ [][NextMisuse]_vars

\* The call that returned r on d panicked and left d as it was.
Aborted(d, r) ==
    /\ r.fault = "panic"
    /\ r.vertices = d.vertices
    /\ r.edges = d.edges
    /\ r.faces = d.faces

\* Every call of split_edge and of connect_edge_to_isolated_vertex with the
\* vertex v aborts.
VertexRefused(d, v) ==
    \A e \in EdgeHandles(d) :
       /\ Aborted(d, split_edge(d, e, v))
       /\ Aborted(d, connect_edge_to_isolated_vertex(d, e, v))

\* C21: split_edge and connect_edge_to_isolated_vertex called with a vertex
\* that has an outgoing edge, and connect_two_isolated_vertices called with
\* such a v0 or v1 or with a face whose adjacent_edge is Some, panic before
\* any mutation: vertices, edges and faces are as before the call.
AssertsAbort ==
    /\ \A v \in VertexHandles(D) : out_edge(D, v) # None => VertexRefused(D, v)
    /\ \A v0 \in VertexHandles(D), v1 \in VertexHandles(D), f \in FaceHandles(D) :
          (out_edge(D, v0) # None \/ out_edge(D, v1) # None \/ adjacent_edge(D, f) # None)
             => Aborted(D, connect_two_isolated_vertices(D, v0, v1, f))

\* A call with a vertex that has an edge has panicked, and the DCEL still
\* has that vertex, that edge and the half-edge the call was given.
AbortedOnVertexInUse ==
    /\ last.op = "panic"
    /\ last.a \in VertexHandles(D)
    /\ out_edge(D, last.a) \in EdgeHandles(D)
    /\ last.ret \in EdgeHandles(D)
    /\ last.rf = None

\* C22: flip_cw(e) called on an edge for which the face of e or the face of
\* twin(e) is not a triangle is reported as an abort and does not mutate the
\* DCEL.
FlipCwAborts ==
    \A e \in EdgeHandles(D) : ~TwoTriangles(D, e) => Aborted(D, flip_cw(D, e))

\* ONextIterator::new
ONextIterator_new(d, edge, owner) ==
    Iterator("o_next", TRUE, edge, o_prev(d, edge), edge, owner)

\* ONextIterator::new_empty
ONextIterator_new_empty(owner) == Iterator("o_next", FALSE, None, None, None, owner)

\* FaceHandle::adjacent_edges, the iterator before it is collected.
face_adjacent_edges(d, f) ==
    IF adjacent_edge(d, f) # None THEN ONextIterator_new(d, adjacent_edge(d, f), f)
    ELSE ONextIterator_new_empty(f)

\* CCWIterator::new that begins with the out_edge itself, which is also
\* where it ends.
CCWIterator_new_at_out_edge(d, vertex) ==
    IF out_edge(d, vertex) # None
    THEN Iterator("ccw", TRUE, out_edge(d, vertex), out_edge(d, vertex),
                  out_edge(d, vertex), vertex)
    ELSE Iterator("ccw", FALSE, None, None, None, vertex)

\* CCWIterator::new
CCWIterator_new(d, vertex) ==
    IF out_edge(d, vertex) # None
    THEN Iterator("ccw", TRUE, ccw(d, out_edge(d, vertex)), out_edge(d, vertex),
                  ccw(d, out_edge(d, vertex)), vertex)
    ELSE Iterator("ccw", FALSE, None, None, None, vertex)

\* CCWIterator::from_edge
CCWIterator_from_edge(d, edge) == Iterator("ccw", TRUE, edge, cw(d, edge), edge, None)

\* An iterator whose cur_until has become None.
Exhausted(it) == [it EXCEPT !.live = FALSE, !.cur = None, !.until = None]

\* A step of an iterator that indexes the edge vector out of bounds.
IteratorPanics(it) == [Exhausted(it) EXCEPT !.fault = "panic"]

\* Iterator::next of ONextIterator and of CCWIterator, called while
\* cur_until is Some: the one follows o_next, the other ccw.
iterator_next(d, it) ==
    IF it.cur = it.until THEN [Exhausted(it) EXCEPT !.front = Append(@, it.cur)]
    ELSE IF it.cur \notin EdgeHandles(d)
            \/ (it.kind = "ccw" /\ o_prev(d, it.cur) \notin EdgeHandles(d))
    THEN IteratorPanics(it)
    ELSE [it EXCEPT !.front = Append(@, it.cur),
                    !.cur = IF it.kind = "o_next" THEN o_next(d, it.cur)
                            ELSE ccw(d, it.cur)]

\* next_back that stops one element early: meeting cur it returns nothing
\* more.
iterator_next_back_early(d, it) ==
    IF it.cur = it.until THEN Exhausted(it)
    ELSE [it EXCEPT !.back = Append(@, it.until),
                    !.until = IF it.kind = "o_next" THEN o_prev(d, it.until)
                              ELSE cw(d, it.until)]

\* DoubleEndedIterator::next_back of ONextIterator and of CCWIterator,
\* called while cur_until is Some: the one follows o_prev, the other cw.
iterator_next_back(d, it) ==
    IF it.cur = it.until THEN [Exhausted(it) EXCEPT !.back = Append(@, it.until)]
    ELSE IF it.until \notin EdgeHandles(d)
            \/ (it.kind = "ccw" /\ sym(d, it.until) \notin EdgeHandles(d))
    THEN IteratorPanics(it)
    ELSE [it EXCEPT !.back = Append(@, it.until),
                    !.until = IF it.kind = "o_next" THEN o_prev(d, it.until)
                              ELSE cw(d, it.until)]

\* An iterator is made; making it counts as a call on the DCEL.
Borrowed(it) ==
    /\ steps < MaxSteps
    /\ iter' = it
    /\ steps' = steps + 1
    /\ UNCHANGED <<vertices, edges, faces, last, simple, rect>>

\* EdgeHandle::o_next_iterator
StartONext == \E e \in EdgeHandles(D) : Borrowed(ONextIterator_new(D, e, None))

\* FaceHandle::adjacent_edges
StartAdjacentEdges == \E f \in FaceHandles(D) : Borrowed(face_adjacent_edges(D, f))

\* VertexHandle::ccw_out_edges
StartCcwOutEdges == \E v \in VertexHandles(D) : Borrowed(CCWIterator_new(D, v))

\* EdgeHandle::ccw_iter
StartCcwIter == \E e \in EdgeHandles(D) : Borrowed(CCWIterator_from_edge(D, e))

\* next() on the live iterator.  On a ring that does not lead to until the
\* source goes on for ever; the model stops after one element more than
\* there are half-edges.
IterNext ==
    /\ iter.live
    /\ Len(iter.front) + Len(iter.back) <= Len(edges)
    /\ iter' = iterator_next(D, iter)
    /\ UNCHANGED <<vertices, edges, faces, last, simple, steps, rect>>

\* next_back() on the live iterator.
IterNextBack ==
    /\ iter.live
    /\ Len(iter.front) + Len(iter.back) <= Len(edges)
    /\ iter' = iterator_next_back(D, iter)
    /\ UNCHANGED <<vertices, edges, faces, last, simple, steps, rect>>

\* The mutating operations and the two iterators, made in the four ways the
\* handles offer and advanced from either end.
NextIter ==
    \/ Next
    \/ StartONext
    \/ StartAdjacentEdges
    \/ StartCcwOutEdges
    \/ StartCcwIter
    \/ IterNext
    \/ IterNextBack

SpecIter == Init /\ [][NextIter]_vars

\* e lies on a next-ring: following next from e leads back to e.
OnNextRing(d, e) == \E k \in 1 .. Len(d.edges) : NextPow(d, e, k) = e

\* The number of half-edges of the next-ring of e.
RingSize(d, e) ==
    CHOOSE k \in 1 .. Len(d.edges) :
       /\ NextPow(d, e, k) = e
       /\ \A j \in 1 .. (k - 1) : NextPow(d, e, j) # e

\* e, next(e), next(next(e)), ...: the k half-edges of the next-ring of e.
RingFrom(d, e, k) == [i \in 1 .. k |-> NextPow(d, e, i - 1)]

\* The iterator it has so far returned, by next(), the first elements of
\* ring in their order and, by next_back(), the last ones in reverse order,
\* no element twice, and it is exhausted exactly when all of ring has been
\* returned.
YieldsOnce(it, ring) ==
    /\ it.fault = "none"
    /\ Len(it.front) + Len(it.back) <= Len(ring)
    /\ \A i \in 1 .. Len(it.front) : it.front[i] = ring[i]
    /\ \A i \in 1 .. Len(it.back) : it.back[i] = ring[Len(ring) + 1 - i]
    /\ it.live <=> Len(it.front) + Len(it.back) < Len(ring)

\* An iterator made by new_empty returns nothing.
YieldsNothing(it) == ~it.live /\ it.front = <<>> /\ it.back = <<>>

\* C23: for a half-edge e on a next-ring of k half-edges, o_next_iterator
\* is finite and yields e, next(e), ... (k handles), each once; next_back
\* yields them from the other end, and any interleaving of the two yields
\* each ring member once.  adjacent_edges of a face whose adjacent_edge is
\* None yields nothing.
ONextIteratorContract ==
    iter.kind = "o_next" =>
       IF iter.start = None THEN YieldsNothing(iter)
       ELSE OnNextRing(D, iter.start) =>
               YieldsOnce(iter, RingFrom(D, iter.start, RingSize(D, iter.start)))

\* On the next-ring of e, prev is the inverse of next.
RingLinked(d, e) ==
    /\ OnNextRing(d, e)
    /\ \A j \in 0 .. (RingSize(d, e) - 1) :
          o_prev(d, NextPow(d, e, j + 1)) = NextPow(d, e, j)

\* C23, for the rings on which prev(next(x)) = x for every member x: the
\* iterator yields the k half-edges of the ring, from the front in ring order
\* and from the back in reverse order, each once under any interleaving of
\* next and next_back, and an iterator over the edges of a face without
\* adjacent_edge yields nothing.
LinkedONextIteratorContract ==
    iter.kind = "o_next" =>
       IF iter.start = None THEN YieldsNothing(iter)
       ELSE RingLinked(D, iter.start) =>
               YieldsOnce(iter, RingFrom(D, iter.start, RingSize(D, iter.start)))

\* An iterator over a ring of at least four half-edges is exhausted after
\* next and next_back have both returned more than one of them.
RingYieldedFromBothEnds ==
    /\ iter.kind = "o_next"
    /\ ~iter.live
    /\ iter.fault = "none"
    /\ Len(iter.front) >= 2
    /\ Len(iter.back) >= 2
    /\ Range(iter.front) \cup Range(iter.back) = Ring(D, iter.start)
    /\ Len(iter.front) + Len(iter.back) = Cardinality(Ring(D, iter.start))

\* e, ccw(e), ccw(ccw(e)), ...
RECURSIVE CcwPow(_, _, _)
CcwPow(d, e, k) == IF k = 0 THEN e ELSE CcwPow(d, ccw(d, e), k - 1)

\* The half-edges whose origin is v.
OutEdges(d, v) == {x \in EdgeHandles(d) : from(d, x) = v}

\* e and the k - 1 half-edges after it, each the ccw of the one before.
CcwFrom(d, e, k) == [i \in 1 .. k |-> CcwPow(d, e, i - 1)]

\* The iterator it, which begins with the half-edge e, yields the half-edges
\* that leave v, each once, each the ccw of the one before, from the front
\* in that order and from the back in reverse.
YieldsOutEdges(d, it, e, v) ==
    /\ Range(CcwFrom(d, e, Cardinality(OutEdges(d, v)))) = OutEdges(d, v)
    /\ YieldsOnce(it, CcwFrom(d, e, Cardinality(OutEdges(d, v))))

\* C24: ccw_out_edges of an isolated vertex yields nothing; of any other
\* vertex it yields every half-edge whose origin is the vertex once, each
\* the ccw of the one before; ccw_iter of e does so beginning with e; rev
\* yields the reversed sequence.
CCWIteratorContract ==
    iter.kind = "ccw" =>
       IF iter.start = None THEN YieldsNothing(iter)
       ELSE YieldsOutEdges(D, iter, iter.start,
                           IF iter.owner = None THEN from(D, iter.start) ELSE iter.owner)

\* C24, for the sequences in which no call has made an edge from a vertex to
\* itself.
SimpleCCWIteratorContract == simple => CCWIteratorContract

\* A CCW iterator over a vertex with at least three outgoing half-edges is
\* exhausted after next and next_back have both returned some of them.
OutEdgesYieldedFromBothEnds ==
    /\ simple
    /\ iter.kind = "ccw"
    /\ ~iter.live
    /\ iter.fault = "none"
    /\ Len(iter.front) >= 1
    /\ Len(iter.back) >= 2
    /\ Range(iter.front) \cup Range(iter.back) = OutEdges(D, from(D, iter.start))
    /\ Len(iter.front) + Len(iter.back) = Cardinality(OutEdges(D, from(D, iter.start)))

\* ccw(e) is the twin of prev(e) and cw(e) the next of twin(e), both leave
\* the vertex e leaves, and each undoes the other.
CwCcwAround(d, e) ==
    /\ ccw(d, e) = sym(d, o_prev(d, e))
    /\ cw(d, e) = o_next(d, sym(d, e))
    /\ from(d, ccw(d, e)) = from(d, e)
    /\ from(d, cw(d, e)) = from(d, e)
    /\ ccw(d, cw(d, e)) = e
    /\ cw(d, ccw(d, e)) = e

\* C25: for every half-edge e of a DCEL satisfying the invariants,
\* e.ccw() == e.o_prev().sym() and e.cw() == e.sym().o_next(), both have the
\* origin of e, and e.cw().ccw() == e and e.ccw().cw() == e.
\* (Written as a disjunction, so that the invariants are evaluated only
\* where the relations fail.)
CwCcwContract == (\A e \in EdgeHandles(D) : CwCcwAround(D, e)) \/ ~Invariants(D)

\* On a DCEL satisfying the invariants a CCW iterator has gone on by ccw
\* from the front and by cw from the back, round a vertex where the two
\* lead to different half-edges.
WentCcwAndCw ==
    /\ Invariants(D)
    /\ iter.kind = "ccw"
    /\ Len(iter.front) >= 2
    /\ Len(iter.back) >= 2
    /\ iter.front[2] = ccw(D, iter.front[1])
    /\ iter.back[2] = cw(D, iter.back[1])
    /\ ccw(D, iter.front[1]) # cw(D, iter.front[1])

\* The points: V = [i32; 2] with both coordinates in 0 .. MaxCoord.
Dim == 2
Axes == 1 .. Dim
Points == [Axes -> 0 .. MaxCoord]

\* misc::max_inline
max_inline(a, b) == IF a > b THEN a ELSE b

\* PointNExtensions::min_point, max_point, sub, all_comp_wise, fold and
\* length2: component by component, fold from the first component on.
min_point(a, b) == [i \in Axes |-> Min(a[i], b[i])]
max_point(a, b) == [i \in Axes |-> Max(a[i], b[i])]
sub(a, b) == [i \in Axes |-> a[i] - b[i]]
all_comp_wise(a, b, f(_, _)) == \A i \in Axes : f(a[i], b[i])
fold(v, init, f(_, _)) ==
    LET acc[i \in 0 .. Dim] == IF i = 0 THEN init ELSE f(acc[i - 1], v[i])
    IN  acc[Dim]
length2(v) == fold(v, 0, LAMBDA acc, value : acc + value * value)

\* struct BoundingRect
BoundingRect(lower, upper) == [lower |-> lower, upper |-> upper]

\* BoundingRect::from_point
from_point(point) == BoundingRect(point, point)

\* BoundingRect::add_point
add_point(self, point) ==
    BoundingRect(min_point(self.lower, point), max_point(self.upper, point))

\* BoundingRect::from_points, after the first point has been taken: the for
\* loop over the rest.
RECURSIVE add_points(_, _)
add_points(result, points) ==
    IF points = <<>> THEN result
    ELSE add_points(add_point(result, Head(points)), Tail(points))

\* What a call that panicked leaves in place of its result.
Panicked(message) == [panic |-> message]

\* from_points that looks at the first and the last point only.
from_points_of_ends(points) ==
    IF points = <<>> THEN Panicked("Expected at least one point")
    ELSE BoundingRect(min_point(Head(points), points[Len(points)]),
                      max_point(Head(points), points[Len(points)]))

\* from_points that returns the rect of the origin for an empty iterator.
from_points_or_origin(points) ==
    IF points = <<>> THEN from_point([i \in Axes |-> 0])
    ELSE add_points(from_point(Head(points)), Tail(points))

\* BoundingRect::from_points: first.expect(..) panics on an empty iterator.
from_points(points) ==
    IF points = <<>> THEN Panicked("Expected at least one point")
    ELSE add_points(from_point(Head(points)), Tail(points))

\* from_corners that takes the corners as they are given.
from_corners_as_given(corner1, corner2) == BoundingRect(corner1, corner2)

\* BoundingRect::from_corners
from_corners(corner1, corner2) ==
    BoundingRect(min_point(corner1, corner2), max_point(corner1, corner2))

\* BoundingRect::contains_point and contains_rect
contains_point(self, point) ==
    /\ all_comp_wise(self.lower, point, LAMBDA l, r : l <= r)
    /\ all_comp_wise(self.upper, point, LAMBDA l, r : l >= r)
contains_rect(self, other) ==
    /\ all_comp_wise(self.lower, other.lower, LAMBDA l, r : l <= r)
    /\ all_comp_wise(self.upper, other.upper, LAMBDA l, r : l >= r)

\* add_rect that enlarges self to the lower corner of the other rect only.
add_rect_to_lower(self, other) ==
    BoundingRect(min_point(self.lower, other.lower), max_point(self.upper, other.lower))

\* BoundingRect::add_rect
add_rect(self, other) ==
    BoundingRect(min_point(self.lower, other.lower), max_point(self.upper, other.upper))

\* BoundingRect::area and half_margin
area(self) ==
    fold(sub(self.upper, self.lower), 1, LAMBDA acc, value : max_inline(acc * value, 0))
half_margin(self) ==
    fold(sub(self.upper, self.lower), 0, LAMBDA acc, value : max_inline(acc + value, 0))

\* BoundingRect::intersect and intersects
intersect(self, other) ==
    BoundingRect(max_point(self.lower, other.lower), min_point(self.upper, other.upper))
intersects(self, other) ==
    /\ all_comp_wise(self.lower, other.upper, LAMBDA l, r : l <= r)
    /\ all_comp_wise(self.upper, other.lower, LAMBDA l, r : l >= r)

\* min_point that clamps the point to upper only.
rect_min_point_below_upper(self, point) == min_point(self.upper, point)

\* BoundingRect::min_point, min_dist2 and SpatialObject::distance2
rect_min_point(self, point) == min_point(self.upper, max_point(self.lower, point))
min_dist2(self, point) == length2(sub(rect_min_point(self, point), point))
distance2(self, point) == min_dist2(self, point)

\* contains that takes a point on the border as outside.
contains_strictly_inside(self, point) ==
    /\ all_comp_wise(self.lower, point, LAMBDA l, r : l < r)
    /\ all_comp_wise(self.upper, point, LAMBDA l, r : l > r)

\* SpatialObject::contains for BoundingRect
contains(self, point) == contains_point(self, point)

\* SpatialObject::mbr for BoundingRect: self.clone()
mbr(self) == BoundingRect(self.lower, self.upper)

\* Scalar::abs
abs(v) == IF v < 0 THEN 0 - v ELSE v

\* BoundingRect::max_dist2
max_dist2(self, point) ==
    LET d1 == [i \in Axes |-> abs(sub(self.lower, point)[i])]
        d2 == [i \in Axes |-> abs(sub(self.upper, point)[i])]
        max_delta == max_point(d1, d2)
    IN  length2(max_delta)

\* BoundingRect::min_max_dist2, the first loop: on every axis min is the
\* offset of the face with the smaller absolute offset and max the offset
\* of the other face; upper is min when the two are equally far.
min_offsets(self, point) ==
    LET l == sub(self.lower, point)
        u == sub(self.upper, point)
    IN  [i \in Axes |-> IF abs(l[i]) < abs(u[i]) THEN l[i] ELSE u[i]]
max_offsets(self, point) ==
    LET l == sub(self.lower, point)
        u == sub(self.upper, point)
    IN  [i \in Axes |-> IF abs(l[i]) < abs(u[i]) THEN u[i] ELSE l[i]]

\* BoundingRect::min_max_dist2, new_dist of the second loop at axis i.
new_dist(self, point, i) ==
    length2([min_offsets(self, point) EXCEPT ![i] = max_offsets(self, point)[i]])

\* min_max_dist2 that returns new_dist of the first axis.
min_max_dist2_first_axis(self, point) == new_dist(self, point, 1)

\* BoundingRect::min_max_dist2
min_max_dist2(self, point) ==
    LET result[i \in 0 .. Dim] ==
            IF i = 0 THEN 0
            ELSE IF new_dist(self, point, i) < result[i - 1] \/ i = 1
                 THEN new_dist(self, point, i)
                 ELSE result[i - 1]
    IN  result[Dim]

\* The BoundingRect held in the state.
R == BoundingRect(rect.lower, rect.upper)

\* The sequences of one to MaxPoints points.
PointSeqs == UNION {[1 .. n -> Points] : n \in 1 .. MaxPoints}

\* The state after a constructor has returned the rect b.
RectMade(op, b, arg) ==
    /\ rect' = RectAfter(op, b.lower, b.upper, None, arg, None)
    /\ UNCHANGED <<vertices, edges, faces, last, simple, steps, iter>>

\* The state after a method of the rect held has left it as b and returned
\* out.
RectBecomes(op, b, arg, out) ==
    /\ rect' = RectAfter(op, b.lower, b.upper, R, arg, out)
    /\ UNCHANGED <<vertices, edges, faces, last, simple, steps, iter>>

FromPoint == \E p \in Points : RectMade("from_point", from_point(p), p)

FromCorners ==
    \E c1 \in Points, c2 \in Points :
       RectMade("from_corners", from_corners(c1, c2), <<c1, c2>>)

\* The state after a constructor has panicked: no rect has been made.
RectRefused(op, arg, out) ==
    /\ rect' = [NoRect EXCEPT !.op = op, !.arg = arg, !.out = out]
    /\ UNCHANGED <<vertices, edges, faces, last, simple, steps, iter>>

FromPoints ==
    \E ps \in PointSeqs \cup {<<>>} :
       IF "panic" \in DOMAIN from_points(ps)
       THEN RectRefused("from_points", ps, from_points(ps))
       ELSE RectMade("from_points", from_points(ps), ps)

AddPoint ==
    /\ rect.made
    /\ \E p \in Points : RectBecomes("add_point", add_point(R, p), p, None)

\* add_rect with a rect made by from_corners: every rect with lower <= upper
\* on the grid is one.
AddRect ==
    /\ rect.made
    /\ \E c1 \in Points, c2 \in Points :
          RectBecomes("add_rect", add_rect(R, from_corners(c1, c2)),
                      from_corners(c1, c2), None)

\* intersect returns a new rect and leaves self as it is.
Intersect ==
    /\ rect.made
    /\ \E c1 \in Points, c2 \in Points :
          RectBecomes("intersect", R, from_corners(c1, c2),
                      intersect(R, from_corners(c1, c2)))

\* distance2 of a point.
Distance2 ==
    /\ rect.made
    /\ \E p \in Points : RectBecomes("distance2", R, p, distance2(R, p))

\* min_max_dist2 of a point.
MinMaxDist2 ==
    /\ rect.made
    /\ \E p \in Points : RectBecomes("min_max_dist2", R, p, min_max_dist2(R, p))

NextRect ==
    \/ FromPoint
    \/ FromCorners
    \/ FromPoints
    \/ AddPoint
    \/ AddRect
    \/ Intersect
    \/ Distance2
    \/ MinMaxDist2

\* The bounding rectangles alone, beside an empty DCEL.
InitRect ==
    /\ vertices = new_with_edge.vertices
    /\ edges = new_with_edge.edges
    /\ faces = new_with_edge.faces
    /\ simple = TRUE
    /\ last = Returned("new", None)
    /\ steps = 0
    /\ iter = NoIterator
    /\ rect = NoRect

SpecRect == InitRect /\ [][NextRect]_vars

\* lower[i] <= upper[i] on every axis.
Valid(b) == \A i \in Axes : b.lower[i] <= b.upper[i]

\* C26: every BoundingRect obtained from from_point, from_corners (corners
\* in either order) or from_points, followed by any sequence of add_point
\* and add_rect calls with such rects, satisfies lower[i] <= upper[i] on
\* every axis.
RectValid == rect.made => Valid(R)

\* A rect has been enlarged by add_rect with a rect that it did not
\* contain, and is not a single point.
EnlargedByRect ==
    /\ rect.op = "add_rect"
    /\ ~contains_rect(rect.old, rect.arg)
    /\ Valid(R)
    /\ R.lower # R.upper

\* The last call was intersect of the valid rect R with a valid rect that
\* it does not intersect.
IntersectedDisjoint ==
    /\ rect.op = "intersect"
    /\ Valid(R)
    /\ Valid(rect.arg)
    /\ ~intersects(R, rect.arg)

\* C27: for valid rects a and b with a.intersects(b) false, a.intersect(b)
\* has area() == 0 and half_margin() == 0.
DisjointIntersectionEmpty ==
    IntersectedDisjoint => area(rect.out) = 0 /\ half_margin(rect.out) = 0

\* The part of C27 that the code keeps: the area of the intersection of two
\* valid rects that do not intersect is 0.
DisjointIntersectionNoArea == IntersectedDisjoint => area(rect.out) = 0

\* How far p lies outside the rect b along axis i:
\* max(lower[i] - p[i], 0, p[i] - upper[i]).
AxisGap(b, p, i) == Max(Max(b.lower[i] - p[i], 0), p[i] - b.upper[i])

\* The sum of the squares of the gaps along the axes 1 .. i.
RECURSIVE GapSquares(_, _, _)
GapSquares(b, p, i) ==
    IF i = 0 THEN 0
    ELSE GapSquares(b, p, i - 1) + AxisGap(b, p, i) * AxisGap(b, p, i)

\* C28: for a valid rect and any point p, distance2(p) == min_dist2(p) == the
\* sum over the axes of max(lower[i] - p[i], 0, p[i] - upper[i]) squared; it
\* is 0 when p is inside the rect or on its border.
Distance2Contract ==
    (rect.op = "distance2" /\ Valid(R)) =>
        /\ rect.out = min_dist2(R, rect.arg)
        /\ rect.out = GapSquares(R, rect.arg, Dim)
        /\ contains_point(R, rect.arg) => rect.out = 0

\* distance2 has been asked for a point that lies outside the rect along
\* every axis, below lower on one of them.
DistanceToCorner ==
    /\ rect.op = "distance2"
    /\ Valid(R)
    /\ \A i \in Axes : AxisGap(R, rect.arg, i) > 0
    /\ \E i \in Axes : rect.arg[i] < R.lower[i]
    /\ rect.out > 1

\* The least and the greatest element of a non-empty set of scalars.
Least(S) == CHOOSE x \in S : \A y \in S : x <= y
Greatest(S) == CHOOSE x \in S : \A y \in S : y <= x

\* The i-th coordinates of the points of the sequence ps.
Coordinates(ps, i) == {ps[k][i] : k \in DOMAIN ps}

\* The sequences that hold the points of ps in another order.
Reordered(ps) ==
    {[k \in DOMAIN ps |-> ps[f[k]]] :
        f \in {g \in [DOMAIN ps -> DOMAIN ps] :
                  \A a, b \in DOMAIN ps : g[a] = g[b] => a = b}}

\* C29: from_points over a non-empty collection returns the rect whose
\* lower is the component-wise minimum and whose upper is the
\* component-wise maximum of the points, whatever the order of the points.
FromPointsContract ==
    (rect.op = "from_points" /\ rect.arg # <<>>) =>
        /\ \A i \in Axes :
              /\ R.lower[i] = Least(Coordinates(rect.arg, i))
              /\ R.upper[i] = Greatest(Coordinates(rect.arg, i))
        /\ \A ps \in Reordered(rect.arg) : from_points(ps) = R

\* from_points has been given MaxPoints points of which none is a corner of
\* the rect returned, the extreme coordinates being those of the points
\* after the first.
BoundsOfThreePoints ==
    /\ rect.op = "from_points"
    /\ Len(rect.arg) = MaxPoints
    /\ \A k \in DOMAIN rect.arg : rect.arg[k] # R.lower /\ rect.arg[k] # R.upper
    /\ \A i \in Axes : R.lower[i] < rect.arg[1][i] /\ rect.arg[1][i] < R.upper[i]

\* The valid rects of the grid.
GridRects == {b \in [lower : Points, upper : Points] : Valid(b)}

\* C30: add_point(p) and add_rect(r) on a valid rect leave it unchanged when
\* p or r is already contained; otherwise the result contains the old rect
\* and p or r, and is the smallest such rect.
EnlargeContract ==
    /\ (rect.op = "add_point" /\ Valid(rect.old)) =>
          /\ contains_point(rect.old, rect.arg) => R = rect.old
          /\ contains_rect(R, rect.old)
          /\ contains_point(R, rect.arg)
          /\ \A b \in GridRects :
                (contains_rect(b, rect.old) /\ contains_point(b, rect.arg))
                    => contains_rect(b, R)
    /\ (rect.op = "add_rect" /\ Valid(rect.old) /\ Valid(rect.arg)) =>
          /\ contains_rect(rect.old, rect.arg) => R = rect.old
          /\ contains_rect(R, rect.old)
          /\ contains_rect(R, rect.arg)
          /\ \A b \in GridRects :
                (contains_rect(b, rect.old) /\ contains_rect(b, rect.arg))
                    => contains_rect(b, R)

\* add_point has been given a point outside a valid rect that is not a
\* single point, and the rect has grown on every axis.
PointAddedOutside ==
    /\ rect.op = "add_point"
    /\ Valid(rect.old)
    /\ rect.old.lower # rect.old.upper
    /\ ~contains_point(rect.old, rect.arg)
    /\ \A i \in Axes :
          R.upper[i] - R.lower[i] > rect.old.upper[i] - rect.old.lower[i]

\* C31: from_points called with an empty collection aborts (panics) instead
\* of returning a rect.
EmptyFromPointsPanics ==
    (rect.op = "from_points" /\ rect.arg = <<>>) =>
        /\ ~rect.made
        /\ "panic" \in DOMAIN rect.out

\* from_points has been called with an empty collection after a rect had
\* been made; the call has left its message.
EmptyCollectionGiven ==
    /\ rect.op = "from_points"
    /\ rect.arg = <<>>
    /\ rect.out = Panicked("Expected at least one point")

\* The smaller and the larger of the distances along axis i from p to the
\* two faces of the rect b that are normal to axis i.
NearerFace(b, p, i) == Least({abs(b.lower[i] - p[i]), abs(b.upper[i] - p[i])})
FartherFace(b, p, i) == Greatest({abs(b.lower[i] - p[i]), abs(b.upper[i] - p[i])})

\* The sum of the squares of the components 1 .. k of g.
RECURSIVE SumOfSquares(_, _)
SumOfSquares(g, k) == IF k = 0 THEN 0 ELSE SumOfSquares(g, k - 1) + g[k] * g[k]

\* The squared distance from p to the point on the farther face of b on
\* axis i and on the nearer face on every other axis.
FarOnOneAxis(b, p, i) ==
    SumOfSquares([j \in Axes |-> IF j = i THEN FartherFace(b, p, j)
                                  ELSE NearerFace(b, p, j)], Dim)

\* C32: for every valid rect and point p, min_max_dist2(p) is the minimum
\* over the axes i of the squared distance from p to the point on the face
\* farther from p on axis i and on the face nearer to p on every other axis;
\* min_dist2(p) <= min_max_dist2(p) <= max_dist2(p), and max_dist2(p) is the
\* squared distance to the farthest corner.
MinMaxDist2Contract ==
    (rect.op = "min_max_dist2" /\ Valid(R)) =>
        /\ rect.out = Least({FarOnOneAxis(R, rect.arg, i) : i \in Axes})
        /\ min_dist2(R, rect.arg) <= rect.out
        /\ rect.out <= max_dist2(R, rect.arg)
        /\ max_dist2(R, rect.arg) =
              SumOfSquares([j \in Axes |-> FartherFace(R, rect.arg, j)], Dim)

\* min_max_dist2 has been asked for a point outside a rect, the second axis
\* giving the smaller distance, strictly between min_dist2 and max_dist2.
SecondAxisNearer ==
    /\ rect.op = "min_max_dist2"
    /\ Valid(R)
    /\ ~contains_point(R, rect.arg)
    /\ FarOnOneAxis(R, rect.arg, 2) < FarOnOneAxis(R, rect.arg, 1)
    /\ min_dist2(R, rect.arg) < rect.out
    /\ rect.out < max_dist2(R, rect.arg)

\* C33: connect_edge_to_edge(prev_e, next_e), and therefore create_face,
\* called with next_e == next(prev_e), two consecutive half-edges of one
\* ring, leaves prev(next(x)) == x and next(prev(x)) == x for every
\* half-edge x, the new pair included.
ConsecutiveKeepsLinks ==
    \/ ~InvLinks
    \/ \A prev_e \in EdgeHandles(D) :
          /\ \A x \in EdgeHandles(connect_edge_to_edge(D, prev_e, o_next(D, prev_e))) :
                LinksOk(connect_edge_to_edge(D, prev_e, o_next(D, prev_e)), x)
          /\ \A x \in EdgeHandles(create_face(D, prev_e, o_next(D, prev_e))) :
                LinksOk(create_face(D, prev_e, o_next(D, prev_e)), x)

\* What is left of C33: the half-edges that were there before the call keep
\* their links to each other or to the new twin; it is the new half-edge
\* that no other half-edge points to.
ConsecutiveOrphansNewEdge ==
    \/ ~InvLinks
    \/ \A prev_e \in EdgeHandles(D) :
          LET r == connect_edge_to_edge(D, prev_e, o_next(D, prev_e))
          IN  /\ \A x \in EdgeHandles(r) \ {Len(D.edges)} : LinksOk(r, x)
              /\ o_next(r, prev_e) = Len(D.edges) + 1
              /\ o_prev(r, o_next(D, prev_e)) = Len(D.edges) + 1
              /\ o_prev(r, Len(D.edges)) = prev_e
              /\ o_next(r, Len(D.edges)) = o_next(D, prev_e)

\* C34: after any sequence of the mutating operations, each called with its
\* precondition met, every stored handle is in range: next, prev and twin
\* of every half-edge are below the number of half-edges, origin below
\* num_vertices and face below num_faces; every out_edge and every
\* adjacent_edge that is Some is below the number of half-edges.
HandlesInRange ==
    /\ \A e \in EdgeHandles(D) :
          /\ o_next(D, e) \in EdgeHandles(D)
          /\ o_prev(D, e) \in EdgeHandles(D)
          /\ sym(D, e) \in EdgeHandles(D)
          /\ from(D, e) \in VertexHandles(D)
          /\ face(D, e) \in FaceHandles(D)
    /\ \A v \in VertexHandles(D) :
          out_edge(D, v) # None => out_edge(D, v) \in EdgeHandles(D)
    /\ \A f \in FaceHandles(D) :
          adjacent_edge(D, f) # None => adjacent_edge(D, f) \in EdgeHandles(D)

\* C34 when, moreover, no call has made an edge from a vertex to itself.
SimpleHandlesInRange == simple => HandlesInRange

\* The number of remove_edge calls that the loop of remove_vertex makes.
RECURSIVE remove_edge_calls(_, _, _, _)
remove_edge_calls(d, vertex_handle, remaining_face, fuel) ==
    IF out_edge(d, vertex_handle) = None \/ d.fault # "none" \/ fuel = 0 THEN 0
    ELSE 1 + remove_edge_calls(
                 remove_edge(d, out_edge(d, vertex_handle), remaining_face),
                 vertex_handle, remaining_face, fuel - 1)

\* The degree of v: the number of edges (twin pairs) with an end at v, an
\* edge from v to v counting once.
Degree(d, v) ==
    Cardinality({{e, sym(d, e)} : e \in {x \in EdgeHandles(d) : from(d, x) = v}})

\* r is the result of remove_vertex(v, rf) on d, whose loop has left l: the
\* call has returned after Degree(d, v) remove_edge calls, v had no out_edge
\* when the loop ended, and Degree(d, v) edges and one vertex are gone.
RemovedWithItsEdges(d, l, r, v, rf) ==
    /\ r.dcel.fault = "none"
    /\ remove_edge_calls(d, v, rf, Len(d.edges)) = Degree(d, v)
    /\ out_edge(l, v) = None
    /\ num_edges(r.dcel) = num_edges(d) - Degree(d, v)
    /\ num_vertices(r.dcel) = num_vertices(d) - 1

\* C35: remove_vertex(v, r) on a vertex of degree d in a DCEL that satisfies
\* the invariants terminates: its loop makes exactly d remove_edge calls,
\* after which v.out_edge is None, num_edges has decreased by d and
\* num_vertices by 1.
RemoveVertexTerminates ==
    \/ \A v \in VertexHandles(D), rf \in OptFaces(D) :
          RemovedWithItsEdges(D, remove_vertex_loop(D, v, rf, Len(D.edges)),
                              remove_vertex(D, v, rf), v, rf)
    \/ ~Invariants(D)

\* C35 when, moreover, no call has made an edge from a vertex to itself.
SimpleRemoveVertexTerminates == simple => RemoveVertexTerminates

\* flip_cw(e) applied n times in a row to d.
RECURSIVE flips(_, _, _)
flips(d, e, n) == IF n = 0 THEN d ELSE flips(flip_cw(d, e), e, n - 1)

\* r has every half-edge entry (next, prev, twin, origin, face) of d.
SameHalfEdges(d, r) ==
    /\ Len(r.edges) = Len(d.edges)
    /\ \A h \in EdgeHandles(d) :
          /\ o_next(r, h) = o_next(d, h)
          /\ o_prev(r, h) = o_prev(d, h)
          /\ sym(r, h) = sym(d, h)
          /\ from(r, h) = from(d, h)
          /\ face(r, h) = face(d, h)

\* r has e of d with its two ends exchanged.
Reversed(d, r, e) ==
    /\ from(r, e) = to(d, e)
    /\ to(r, e) = from(d, e)

\* The four flips of e in d all succeed, the fourth gives back the half-edges
\* of d, and the second leaves e reversed.
FlipsComeBack(d, e) ==
    /\ flips(d, e, 4).fault = "none"
    /\ SameHalfEdges(d, flips(d, e, 4))
    /\ Reversed(d, flips(d, e, 2), e)

\* C36: for an edge e whose two sides are triangles, four flip_cw(e) in a
\* row restore every half-edge entry (next, prev, twin, origin, face) of the
\* DCEL, and two of them leave e joining its first two endpoints in the
\* opposite direction.
FourFlipsRestore ==
    \/ \A e \in EdgeHandles(D) : TwoTriangles(D, e) => FlipsComeBack(D, e)
    \/ ~Invariants(D)

\* C36 when, moreover, no call has made an edge from a vertex to itself.
SimpleFourFlipsRestore == simple => FourFlipsRestore

\* Every half-edge of d carries the handle of a face entry of d.
FacesInRange(d) == \A e \in EdgeHandles(d) : face(d, e) \in FaceHandles(d)

\* C36 for the DCELs whose face handles are all in range.
FourFlipsRestoreInRange ==
    \/ \A e \in EdgeHandles(D) : TwoTriangles(D, e) => FlipsComeBack(D, e)
    \/ ~Invariants(D)
    \/ ~FacesInRange(D)

\* C36 for the DCELs whose face handles are all in range, when no call has
\* made an edge from a vertex to itself.
SimpleFourFlipsRestoreInRange == simple => FourFlipsRestoreInRange

\* C36, witness: a flip_cw has just run on an edge between two triangles
\* with four distinct corners, which is between two triangles again.
FlippedBetweenTriangles ==
    /\ last.op = "flip_cw"
    /\ D.fault = "none"
    /\ Invariants(D)
    /\ TwoTriangles(D, last.a)
    /\ Cardinality({from(D, h) : h \in
          {last.a, o_next(D, last.a), o_prev(D, last.a),
           o_next(D, sym(D, last.a)), o_prev(D, sym(D, last.a))}}) = 4

\* e, its twin and the four other half-edges of the rings of three on the
\* two sides of e in d.
TwoTriangleEdges(d, e) ==
    {e, o_next(d, e), o_prev(d, e),
     sym(d, e), o_next(d, sym(d, e)), o_prev(d, sym(d, e))}

\* r, the DCEL after flip_cw(e) on d, differs from d only where flip_cw may
\* write: the counts and every twin are those of d, as are the half-edges
\* outside the two triangles, the face entries other than those of e and
\* its twin, the out_edge of the vertices other than the two ends of e and
\* the data of every vertex.
FlipFrame(d, r, e) ==
    /\ num_vertices(r) = num_vertices(d)
    /\ num_edges(r) = num_edges(d)
    /\ Len(r.edges) = Len(d.edges)
    /\ num_faces(r) = num_faces(d)
    /\ \A h \in EdgeHandles(d) : sym(r, h) = sym(d, h)
    /\ \A h \in EdgeHandles(d) \ TwoTriangleEdges(d, e) : EdgeAt(r, h) = EdgeAt(d, h)
    /\ \A f \in FaceHandles(d) \ {face(d, e), face(d, sym(d, e))} :
          adjacent_edge(r, f) = adjacent_edge(d, f)
    /\ \A v \in VertexHandles(d) \ {from(d, e), to(d, e)} :
          out_edge(r, v) = out_edge(d, v)
    /\ \A v \in VertexHandles(d) : r.vertices[v + 1].data = d.vertices[v + 1].data

create_then_remove(d, prev_e, next_e, remaining_face) ==
    remove_edge(create_face(d, prev_e, next_e), Len(d.edges), remaining_face)

\* r, the DCEL after create_face and remove_edge on d, has the counts and
\* the half-edge entries of d and satisfies the invariants.
UndoneBy(d, r) ==
    /\ r.fault = "none"
    /\ num_edges(r) = num_edges(d)
    /\ num_faces(r) = num_faces(d)
    /\ SameHalfEdges(d, r)
    /\ Invariants(r)

\* C38: create_face(prev_e, next_e) immediately followed by remove_edge of
\* the returned half-edge, with remaining_face None or Some(the face prev_e
\* had), restores num_edges, num_faces and every half-edge entry (next,
\* prev, twin, origin, face); the out_edge and adjacent_edge choices that
\* may differ still satisfy the invariants.
CreateFaceUndone ==
    \/ \A prev_e \in EdgeHandles(D) :
          \A next_e \in Ring(D, prev_e), rf \in {None, face(D, prev_e)} :
             UndoneBy(D, create_then_remove(D, prev_e, next_e, rf))
    \/ ~Invariants(D)

\* C38 when next_e does not follow prev_e immediately on the ring.
CreateFaceUndoneNotConsecutive ==
    \/ \A prev_e \in EdgeHandles(D), next_e \in EdgeHandles(D) :
          SameRingNotConsecutive(D, prev_e, next_e) =>
             \A rf \in {None, face(D, prev_e)} :
                UndoneBy(D, create_then_remove(D, prev_e, next_e, rf))
    \/ ~Invariants(D)

\* C38 when next_e does not follow prev_e immediately and no call has made
\* an edge from a vertex to itself.
SimpleCreateFaceUndone == simple => CreateFaceUndoneNotConsecutive

\* C38 when next_e does not follow prev_e immediately, the face handles are
\* all in range and no call has made an edge from a vertex to itself.
SimpleCreateFaceUndoneInRange ==
    (simple /\ FacesInRange(D)) => CreateFaceUndoneNotConsecutive

\* C39: for every valid bounding rect (lower <= upper) and every point p,
\* distance2(p) is 0 if and only if contains(p) is true, and mbr() returns a
\* rect equal to the rect itself.
SpatialObjectConsistent ==
    (rect.made /\ Valid(R)) =>
        /\ \A p \in Points : distance2(R, p) = 0 <=> contains(R, p)
        /\ mbr(R) = R
        /\ rect.op = "distance2" => (rect.out = 0 <=> contains(R, rect.arg))

\* C39, witness: distance2 has returned 0 for a point on the border of a
\* valid rect of more than one point that leaves points outside.
DistanceZeroOnBorder ==
    /\ rect.op = "distance2"
    /\ Valid(R)
    /\ rect.out = 0
    /\ contains(R, rect.arg)
    /\ \E i \in Axes : rect.arg[i] = R.lower[i] \/ rect.arg[i] = R.upper[i]
    /\ R.lower # R.upper
    /\ \E q \in Points : ~contains(R, q) /\ distance2(R, q) > 0

\* DCEL::sanity_check: TRUE when none of its assertions fails. The third
\* loop runs over the handles 0 .. num_edges() - 1, num_edges() being half the
\* length of the edge array.
sanity_check(d) ==
    /\ \A index \in FaceHandles(d) :
          adjacent_edge(d, index) # None => face(d, adjacent_edge(d, index)) = index
    /\ \A index \in VertexHandles(d) :
          out_edge(d, index) # None => from(d, out_edge(d, index)) = index
    /\ \A handle \in 0 .. num_edges(d) - 1 : LinksOk(d, handle)

\* When sanity_check passes on d, every half-edge index of d satisfies the
\* three identities.
PassedMeansLinked(d) == sanity_check(d) => \A e \in EdgeHandles(d) : LinksOk(d, e)

\* C40: whenever sanity_check passes, e == e.o_next().o_prev() ==
\* e.o_prev().o_next() == e.sym().sym() holds for every half-edge index of
\* the edge array, not only for a prefix of it: in the DCEL held and in the
\* DCEL after connect_edge_to_edge on any two half-edges of one face ring.
SanityCheckCoversAll ==
    /\ PassedMeansLinked(D)
    /\ \A prev_e \in EdgeHandles(D) :
          \A next_e \in Ring(D, prev_e) :
             connect_edge_to_edge(D, prev_e, next_e).fault = "none" =>
                PassedMeansLinked(connect_edge_to_edge(D, prev_e, next_e))

\* C40 in the DCELs that the calls with next_e not immediately after prev_e
\* reach.
SanityCheckCoversReached == PassedMeansLinked(D)

====
